---- MODULE Spec2Model ----
(***************************************************************************)
(* Model of the replication engine of sync_idb: the versioned store        *)
(* handlers of routes/syncRoute.ts (bulk upsert, PUT, PATCH, DELETE,       *)
(* differential read), the field merge of modulos/MergeManager.ts and the  *)
(* connection fan-out of websocket/notificationManager.ts.                 *)
(*                                                                         *)
(* A JSON object is a function from field names to values; a field that    *)
(* is undefined is simply not in the DOMAIN.  An id is a tagged value      *)
(* <<"s", n>> (the string "n") or <<"n", n>> (the number n), because the   *)
(* code compares ids with ===, with == and through String().               *)
(* Timestamps are integers: 0 is the epoch, BadDate an unparsable string.  *)
(***************************************************************************)
EXTENDS Integers, Sequences, FiniteSets, TLC

\* ------------------------------------------------------------------ bounds
MaxCalls == 2          \* mutating requests started in one behaviour

\* ------------------------------------------------------- program constants
LogLimit == 1000       \* versionLog.length > 1000 triggers truncation
LogKeep == 500         \* versionLog.slice(-500)

\* --------------------------------------------------------- JSON utilities
Unknown == "unknown"   \* default of clientId in the request body
BadDate == -1          \* a timestamp string that Date cannot parse
NaN == -2              \* getTime() of an Invalid Date

Has(o, k) == k \in DOMAIN o
Put(o, k, v) == [x \in (DOMAIN o) \cup {k} |-> IF x = k THEN v ELSE o[x]]
Drop(o, ks) == [x \in (DOMAIN o) \ ks |-> o[x]]
Spread(a, b) == [x \in (DOMAIN a) \cup (DOMAIN b) |-> IF x \in DOMAIN b THEN b[x] ELSE a[x]]

Str(n) == <<"s", n>>
Num(n) == <<"n", n>>
\* String(id)
ToStr(id) == <<"s", id[2]>>
\* a == b of JavaScript on ids: a number and a numeric string compare by value
LooseEq(a, b) == a[2] = b[2]

\* JSON.stringify(a[k]) !== JSON.stringify(b[k]); stringify of undefined is undefined
Differs(a, b, k) ==
  IF Has(a, k) /\ Has(b, k) THEN a[k] # b[k] ELSE Has(a, k) # Has(b, k)

\* new Date(x).getTime()
ParseDate(x) == IF x = BadDate THEN NaN ELSE x
Lt(a, b) == a # NaN /\ b # NaN /\ a < b
Gt(a, b) == a # NaN /\ b # NaN /\ a > b
Ge(a, b) == a # NaN /\ b # NaN /\ a >= b

\* ------------------------------------------------------------ MergeManager
keysToExclude == {"created_at", "updated_at", "synced_at", "version", "hash", "client_id"}

\* Records are flat here, so the recursion of normalizeForHash stops at the
\* first level; key order is immaterial for a function.
normalizeForHash(data) == Drop(data, keysToExclude)

\* sha256 of the canonical serialisation, taken to be collision free
generateHash(data) == normalizeForHash(data)

\* the variant that looks at created_at first
EffectiveTime_CreatedFirst(o) ==
  IF Has(o, "created_at") THEN ParseDate(o["created_at"])
  ELSE IF Has(o, "updated_at") THEN ParseDate(o["updated_at"])
  ELSE 0

\* new Date(o.updated_at || o.created_at || 0)
EffectiveTime(o) ==
  IF Has(o, "updated_at") THEN ParseDate(o["updated_at"])
  ELSE IF Has(o, "created_at") THEN ParseDate(o["created_at"])
  ELSE 0

MergedCreatedAt(local, remote) ==
  IF Has(local, "created_at")
    THEN IF Lt(ParseDate(local["created_at"]), ParseDate(remote["created_at"]))
           THEN local["created_at"] ELSE remote["created_at"]
    ELSE remote["created_at"]

\* the variant that gives every differing field to remote
fieldLevelMerge_RemoteWins(local, remote, localTime, remoteTime) ==
  [k \in (DOMAIN local) \cup ((DOMAIN remote) \ {"id"}) |->
     IF ~Has(remote, k) \/ k = "id" THEN local[k]
     ELSE IF k = "created_at" THEN MergedCreatedAt(local, remote)
     ELSE remote[k]]

\* the variant in which a tie goes to local
fieldLevelMerge_TieLocal(local, remote, localTime, remoteTime) ==
  [k \in (DOMAIN local) \cup ((DOMAIN remote) \ {"id"}) |->
     IF ~Has(remote, k) \/ k = "id" THEN local[k]
     ELSE IF k = "created_at" THEN MergedCreatedAt(local, remote)
     ELSE IF ~Has(local, k) THEN remote[k]
     ELSE IF local[k] # remote[k]
       THEN (IF Gt(remoteTime, localTime) THEN remote[k] ELSE local[k])
       ELSE local[k]]

\* for (key in remote): created_at keeps the earlier one, id is skipped, a
\* field absent from local is adopted, a differing field goes to the side
\* with the later time (remote on a tie)
fieldLevelMerge(local, remote, localTime, remoteTime) ==
  [k \in (DOMAIN local) \cup ((DOMAIN remote) \ {"id"}) |->
     IF ~Has(remote, k) \/ k = "id" THEN local[k]
     ELSE IF k = "created_at" THEN MergedCreatedAt(local, remote)
     ELSE IF ~Has(local, k) THEN remote[k]
     ELSE IF local[k] # remote[k]
       THEN (IF Ge(remoteTime, localTime) THEN remote[k] ELSE local[k])
       ELSE local[k]]

\* the keys of resolvedFields: for (key in merged) if key in remote and the
\* serialised values of local and remote differ
ResolvedKeys(local, remote, merged) ==
  {k \in DOMAIN merged : Has(remote, k) /\ Differs(local, remote, k)}

ResolvedFields(local, remote, merged, localTime, remoteTime) ==
  [k \in ResolvedKeys(local, remote, merged) |->
     [local |-> IF Has(local, k) THEN <<local[k]>> ELSE <<>>,
      remote |-> remote[k],
      resolved |-> merged[k],
      winner |-> IF Ge(remoteTime, localTime) THEN "remote" ELSE "local"]]

\* merged = remoteTime >= localTime ? remote : local
LastWriteWins(local, remote, localTime, remoteTime) ==
  IF Ge(remoteTime, localTime) THEN remote ELSE local

\* { ...local, updated_at: remoteTime > localTime ? remote.updated_at : local.updated_at }
SameContentMerge(local, remote, localTime, remoteTime) ==
  LET src == IF Gt(remoteTime, localTime) THEN remote ELSE local
  IN IF Has(src, "updated_at") THEN Put(local, "updated_at", src["updated_at"])
     ELSE Drop(local, {"updated_at"})

\* conflict = { id: local.id || remote.id, resolvedFields, timestamp }
ConflictReport(local, remote, rf) ==
  [id |-> IF Has(local, "id") THEN local["id"]
          ELSE IF Has(remote, "id") THEN remote["id"] ELSE <<"u", 0>>,
   resolvedFields |-> rf]

\* the variant that takes the later copy whole under every strategy
mergeObjects_AlwaysLastWrite(local, remote, strategy, t) ==
  LET localTime == EffectiveTime(local)
      remoteTime == EffectiveTime(remote)
  IN IF generateHash(local) = generateHash(remote)
       THEN [merged |-> SameContentMerge(local, remote, localTime, remoteTime),
             conflict |-> <<>>]
     ELSE [merged |-> Put(LastWriteWins(local, remote, localTime, remoteTime), "updated_at", t),
           conflict |-> <<>>]

\* mergeObjects(local, remote, {strategy}) at wall-clock time t; conflict is
\* <<>> for null, else <<the report>>
mergeObjects(local, remote, strategy, t) ==
  LET localTime == EffectiveTime(local)
      remoteTime == EffectiveTime(remote)
      flm == fieldLevelMerge(local, remote, localTime, remoteTime)
      rf == ResolvedFields(local, remote, flm, localTime, remoteTime)
  IN IF generateHash(local) = generateHash(remote)
       THEN [merged |-> SameContentMerge(local, remote, localTime, remoteTime),
             conflict |-> <<>>]
     ELSE IF strategy = "field-level-merge"
       THEN [merged |-> Put(flm, "updated_at", t),
             conflict |-> IF DOMAIN rf # {} THEN <<ConflictReport(local, remote, rf)>> ELSE <<>>]
     ELSE IF strategy \in {"last-write-wins", "custom"}
       THEN [merged |-> Put(LastWriteWins(local, remote, localTime, remoteTime), "updated_at", t),
             conflict |-> <<>>]
     ELSE [merged |-> Put(flm, "updated_at", t), conflict |-> <<>>]

\* ------------------------------------------------------------ the ledger
\* initStoreMetadata(); also what a handler uses when load finds no store
initStoreMetadata == [present |-> FALSE, data |-> <<>>, currentVersion |-> 0, versionLog |-> <<>>]

\* the variant that keeps the oldest entries
Truncate_KeepOldest(log) ==
  IF Len(log) > LogLimit THEN SubSeq(log, 1, LogKeep) ELSE log

\* versionLog.slice(-500) once the log is longer than 1000
Truncate(log) ==
  IF Len(log) > LogLimit THEN SubSeq(log, Len(log) - LogKeep + 1, Len(log)) ELSE log

\* the variant that allocates one version number per item of the call
addVersionLog_PerItem(meta, operation, itemIds, clientId) ==
  [meta EXCEPT !.currentVersion = @ + Len(itemIds),
               !.versionLog = Truncate(Append(@, [version |-> meta.currentVersion + Len(itemIds),
                                                    operation |-> operation,
                                                    itemIds |-> itemIds,
                                                    clientId |-> clientId]))]

\* addVersionLog(storeMetadata, operation, itemIds, clientId): the metadata
\* after the call; the returned number is its currentVersion
addVersionLog(meta, operation, itemIds, clientId) ==
  [meta EXCEPT !.currentVersion = @ + 1,
               !.versionLog = Truncate(Append(@, [version |-> meta.currentVersion + 1,
                                                    operation |-> operation,
                                                    itemIds |-> itemIds,
                                                    clientId |-> clientId]))]

\* the variant that keeps a version the data already carries
addVersionedData_KeepVersion(data, clientId, newVersion, t) ==
  Spread(data, [created_at |-> IF Has(data, "created_at") THEN data["created_at"] ELSE t,
                updated_at |-> t,
                version |-> IF Has(data, "version") THEN data["version"] ELSE newVersion,
                client_id |-> clientId])

\* addVersionedData(data, isUpdate, clientId, newVersion) at time t
addVersionedData(data, clientId, newVersion, t) ==
  Spread(data, [created_at |-> IF Has(data, "created_at") THEN data["created_at"] ELSE t,
                updated_at |-> t,
                version |-> newVersion,
                client_id |-> clientId])
\* const MAX_CONFLICT_LOGS = 100
MAX_CONFLICT_LOGS == 100

\* logConflicts(storeName, conflicts): conflictLogs after the call, logs being
\* the one array that the module keeps for all stores
logConflicts(logs, storeName, conflicts) ==
  IF Len(conflicts) > 0
    THEN SubSeq(<<[storeName |-> storeName, conflicts |-> conflicts, resolved |-> TRUE]>> \o logs, 1,
                IF Len(logs) + 1 > MAX_CONFLICT_LOGS THEN MAX_CONFLICT_LOGS ELSE Len(logs) + 1)
    ELSE logs

\* --------------------------------------------------- the handlers' bodies
\* item[idField] when the item has no such field
Undefined == <<"u", 0>>
FieldOf(item, f) == IF Has(item, f) THEN item[f] ELSE Undefined

\* a JavaScript Map as a sequence of [key, val] in insertion order
MapHas(m, k) == \E i \in 1..Len(m) : m[i].key = k
MapGet(m, k) == m[CHOOSE i \in 1..Len(m) : m[i].key = k].val
MapSet(m, k, v) ==
  IF MapHas(m, k)
    THEN [i \in 1..Len(m) |-> IF m[i].key = k THEN [key |-> k, val |-> v] ELSE m[i]]
    ELSE Append(m, [key |-> k, val |-> v])

RECURSIVE MapOf(_, _)
\* new Map(data.filter(item => item && item[idField] != null).map(item => [item[idField], item]))
MapOf(data, idField) ==
  IF data = <<>> THEN <<>>
  ELSE LET rest == MapOf(SubSeq(data, 1, Len(data) - 1), idField)
           item == data[Len(data)]
       IN IF Has(item, idField) THEN MapSet(rest, item[idField], item) ELSE rest

\* one turn of the loop `for (const item of incomingData)`
BulkStep(acc, item, clientId, strategy, idField, t) ==
  LET id == FieldOf(item, idField)
      exists == MapHas(acc.map, id)
      existingItem == MapGet(acc.map, id)
      mo == mergeObjects(existingItem, item, strategy, t)
      base == IF exists THEN mo.merged ELSE item
      finalItem == Spread(base,
                     [updated_at |-> t,
                      created_at |-> IF exists /\ Has(existingItem, "created_at")
                                       THEN existingItem["created_at"] ELSE t,
                      client_id |-> clientId])
  IN [map |-> MapSet(acc.map, id, finalItem),
      conflicts |-> IF exists THEN acc.conflicts \o mo.conflict ELSE acc.conflicts,
      processedItems |-> Append(acc.processedItems, finalItem),
      createdIds |-> IF exists THEN acc.createdIds ELSE Append(acc.createdIds, id),
      updatedIds |-> IF exists THEN Append(acc.updatedIds, id) ELSE acc.updatedIds,
      touched |-> acc.touched \cup {id}]

RECURSIVE BulkLoop(_, _, _, _, _, _)
BulkLoop(acc, items, clientId, strategy, idField, t) ==
  IF items = <<>> THEN acc
  ELSE BulkLoop(BulkStep(acc, Head(items), clientId, strategy, idField, t),
                Tail(items), clientId, strategy, idField, t)

\* the whole-store gate: if (lastVersion < storeMetadata.currentVersion)
VersionConflict_Lax(lastVersion, currentVersion) == lastVersion + 1 < currentVersion
VersionConflict(lastVersion, currentVersion) == lastVersion < currentVersion

\* the variant that stamps only an item that has no version yet
StampVersion_IfAbsent(item, newVersion) ==
  IF Has(item, "version") THEN item ELSE Put(item, "version", newVersion)

\* processedItems.forEach(item => item.version = newVersion)
StampVersion(item, newVersion) == Put(item, "version", newVersion)

\* the synchronous part of POST /sync/:db/:store between load and save, on the
\* loaded metadata: the version gate, the loop, the ledger append
BulkBody(loaded, b, t) ==
  LET meta == IF loaded.present THEN loaded ELSE initStoreMetadata
  IN IF VersionConflict(b.lastVersion, meta.currentVersion)
       THEN [status |-> 409, meta |-> loaded, conflicts |-> <<>>, event |-> <<>>,
             resp |-> [success |-> FALSE, needsFullSync |-> TRUE,
                       serverVersion |-> meta.currentVersion]]
     ELSE
       LET acc == BulkLoop([map |-> MapOf(meta.data, b.idField), conflicts |-> <<>>,
                            processedItems |-> <<>>, createdIds |-> <<>>,
                            updatedIds |-> <<>>, touched |-> {}],
                           b.data, b.clientId, b.strategy, b.idField, t)
           logged == addVersionLog(meta, "bulk", acc.createdIds \o acc.updatedIds, b.clientId)
           newVersion == logged.currentVersion
           processed == [i \in 1..Len(acc.processedItems) |->
                           StampVersion(acc.processedItems[i], newVersion)]
           \* the objects of the map that are processedItems carry the stamp
           data == [i \in 1..Len(acc.map) |->
                      IF acc.map[i].key \in acc.touched
                        THEN StampVersion(acc.map[i].val, newVersion)
                        ELSE acc.map[i].val]
           saved == [logged EXCEPT !.present = TRUE, !.data = data]
       IN [status |-> 200, meta |-> saved, conflicts |-> acc.conflicts,
           event |-> IF Len(processed) > 0
                       THEN <<[action |-> "update", version |-> <<saved.currentVersion>>,
                               count |-> Len(processed), items |-> processed]>>
                       ELSE <<>>,
           resp |-> [success |-> TRUE, synced |-> Len(b.data),
                     conflicts |-> Len(acc.conflicts), version |-> saved.currentVersion]]

\* data.findIndex(item => item && item.id == id); 0 stands for -1
FindIndex(data, id) ==
  IF \E i \in 1..Len(data) : Has(data[i], "id") /\ LooseEq(data[i]["id"], id)
    THEN CHOOSE i \in 1..Len(data) :
           /\ Has(data[i], "id") /\ LooseEq(data[i]["id"], id)
           /\ \A j \in 1..(i - 1) : ~(Has(data[j], "id") /\ LooseEq(data[j]["id"], id))
    ELSE 0

\* const { clientId = 'unknown' } = body
ClientOf(body, dflt) == IF Has(body, "clientId") THEN body["clientId"] ELSE dflt

\* broadcastChange(storeName, action, data): version is data.version
ChangeEvent(action, data) ==
  [action |-> action,
   version |-> IF Has(data, "version") THEN <<data["version"]>> ELSE <<>>,
   count |-> 1, items |-> <<data>>]

\* the variant that holds a PUT to the gate of the bulk upsert
PutBody_Gated(loaded, id, body, t) ==
  LET meta == IF loaded.present THEN loaded ELSE initStoreMetadata
      clientId == ClientOf(body, Unknown)
      lastVersion == IF Has(body, "lastVersion") THEN body["lastVersion"] ELSE 0
      existingIndex == FindIndex(meta.data, id)
      exists == existingIndex # 0
      mo == mergeObjects(meta.data[existingIndex], body, "field-level-merge", t)
      mergedData == IF exists THEN mo.merged ELSE body
      action == IF exists THEN "update" ELSE "create"
      logged == addVersionLog(meta, action, <<id>>, clientId)
      versionedData == addVersionedData(mergedData, clientId, logged.currentVersion, t)
      data == IF exists THEN [meta.data EXCEPT ![existingIndex] = versionedData]
              ELSE Append(meta.data, versionedData)
      saved == [logged EXCEPT !.present = TRUE, !.data = data]
  IN IF VersionConflict(lastVersion, meta.currentVersion)
       THEN [status |-> 409, meta |-> loaded, conflicts |-> <<>>, event |-> <<>>,
             resp |-> [success |-> FALSE, needsFullSync |-> TRUE,
                       serverVersion |-> meta.currentVersion]]
       ELSE [status |-> 200, meta |-> saved,
             conflicts |-> IF exists THEN mo.conflict ELSE <<>>,
             event |-> <<ChangeEvent(action, versionedData)>>,
             resp |-> [success |-> TRUE, action |-> action,
                       hadConflict |-> exists /\ mo.conflict # <<>>,
                       data |-> versionedData, version |-> saved.currentVersion]]

\* the synchronous part of PUT /sync/:db/:store/:id between load and save
PutBody(loaded, id, body, t) ==
  LET meta == IF loaded.present THEN loaded ELSE initStoreMetadata
      clientId == ClientOf(body, Unknown)
      existingIndex == FindIndex(meta.data, id)
      exists == existingIndex # 0
      mo == mergeObjects(meta.data[existingIndex], body, "field-level-merge", t)
      mergedData == IF exists THEN mo.merged ELSE body
      action == IF exists THEN "update" ELSE "create"
      logged == addVersionLog(meta, action, <<id>>, clientId)
      versionedData == addVersionedData(mergedData, clientId, logged.currentVersion, t)
      data == IF exists THEN [meta.data EXCEPT ![existingIndex] = versionedData]
              ELSE Append(meta.data, versionedData)
      saved == [logged EXCEPT !.present = TRUE, !.data = data]
  IN [status |-> 200, meta |-> saved,
      conflicts |-> IF exists THEN mo.conflict ELSE <<>>,
      event |-> <<ChangeEvent(action, versionedData)>>,
      resp |-> [success |-> TRUE, action |-> action,
                hadConflict |-> exists /\ mo.conflict # <<>>,
                data |-> versionedData, version |-> saved.currentVersion]]

NotFound(loaded) ==
  [status |-> 404, meta |-> loaded, conflicts |-> <<>>, event |-> <<>>,
   resp |-> [success |-> FALSE]]

\* the variant that creates the record it does not find, as PUT does
PatchBody_Upsert(loaded, id, body, t) == PutBody(loaded, id, body, t)

\* the synchronous part of PATCH /sync/:db/:store/:id between load and save
PatchBody(loaded, id, body, t) ==
  LET clientId == ClientOf(body, Unknown)
      existingIndex == FindIndex(loaded.data, id)
      mo == mergeObjects(loaded.data[existingIndex], body, "field-level-merge", t)
      logged == addVersionLog(loaded, "update", <<id>>, clientId)
      updated == addVersionedData(mo.merged, clientId, logged.currentVersion, t)
      saved == [logged EXCEPT !.data = [loaded.data EXCEPT ![existingIndex] = updated]]
  IN IF ~loaded.present \/ existingIndex = 0 THEN NotFound(loaded)
     ELSE [status |-> 200, meta |-> saved, conflicts |-> mo.conflict,
           event |-> <<ChangeEvent("patch", updated)>>,
           resp |-> [success |-> TRUE, action |-> "patched", data |-> updated,
                     version |-> saved.currentVersion]]

\* storeMetadata.data.splice(itemIndex, 1)
Splice(data, i) == SubSeq(data, 1, i - 1) \o SubSeq(data, i + 1, Len(data))

\* the synchronous part of DELETE /sync/:db/:store/:id between load and save
DeleteBody(loaded, id, body, t) ==
  LET clientId == ClientOf(body, "server")
      itemIndex == FindIndex(loaded.data, id)
      itemToDelete == loaded.data[itemIndex]
      logged == addVersionLog([loaded EXCEPT !.data = Splice(loaded.data, itemIndex)],
                              "delete", <<id>>, clientId)
  IN IF ~loaded.present \/ itemIndex = 0 THEN NotFound(loaded)
     ELSE [status |-> 200, meta |-> logged, conflicts |-> <<>>,
           event |-> <<ChangeEvent("delete", Spread([id |-> id], itemToDelete))>>,
           resp |-> [success |-> TRUE, version |-> logged.currentVersion]]

\* the variant that counts the log's entries
GetAll_CountsLog(loaded) ==
  LET meta == IF loaded.present THEN loaded ELSE initStoreMetadata
  IN [data |-> meta.data, count |-> Len(meta.versionLog), version |-> meta.currentVersion]

\* GET /sync/:db/:store
GetAll(loaded) ==
  LET meta == IF loaded.present THEN loaded ELSE initStoreMetadata
  IN [data |-> meta.data, count |-> Len(meta.data), version |-> meta.currentVersion]

RECURSIVE SeqToSet(_)
SeqToSet(q) == IF q = <<>> THEN {} ELSE {Head(q)} \cup SeqToSet(Tail(q))

\* the Set changedIds of GET /sync/:db/:store/from/:version
ChangedIds(meta, fromVersion) ==
  UNION {SeqToSet(meta.versionLog[i].itemIds) :
           i \in {j \in 1..Len(meta.versionLog) : meta.versionLog[j].version > fromVersion}}

\* data.filter(item => item && changedIds.has(String(item.id)))
SelectChanged(data, ids) ==
  SelectSeq(data, LAMBDA item : Has(item, "id") /\ ToStr(item["id"]) \in ids)

\* GET /sync/:db/:store/from/:version
changesSince(loaded, fromVersion) ==
  IF ~loaded.present THEN [data |-> <<>>, count |-> 0, currentVersion |-> 0]
  ELSE LET changedItems == SelectChanged(loaded.data, ChangedIds(loaded, fromVersion))
       IN [data |-> changedItems, count |-> Len(changedItems),
           currentVersion |-> loaded.currentVersion]

\* ------------------------------------------------------------ the fan-out
\* the variant that leaves the failed connections registered
Cleanup_Keep(conns, deadConnections) == conns

\* deadConnections.forEach(id => this.connections.delete(id)), after the pass
Cleanup(conns, deadConnections) == conns \ deadConnections

\* the variant that skips nobody
broadcast_NoExclusion(conns, exclude, dead) ==
  [attempted |-> conns,
   delivered |-> conns \ dead,
   sentTo |-> Cardinality(conns \ dead),
   connections |-> conns \ dead]

\* NotificationManager.broadcast(event, data, excludeClientId) on the registry
\* conns, when ws.send throws exactly for the connections in dead;
\* exclude is <<>> for an omitted argument
broadcast(conns, exclude, dead) ==
  LET attempted == {c \in conns : ~(exclude # <<>> /\ <<c>> = exclude)}
      failed == attempted \cap dead
  IN [attempted |-> attempted,
      delivered |-> attempted \ failed,
      sentTo |-> Cardinality(attempted \ failed),
      connections |-> Cleanup(conns, failed)]

\* broadcastChange(storeName, action, data) and the task route call
\* notificationManager.broadcast('sync:change', payload) with two arguments
broadcastChange(conns, dead) == broadcast(conns, <<>>, dead)

\* ------------------------------------------------------- requests in flight
VARIABLES
  db,           \* the persisted StoreMetadata of the store
  req,          \* the request handled in each slot and where its handler stands
  connections,  \* the registry of the NotificationManager: the client ids
  now,          \* the wall clock
  started,      \* mutating requests begun so far
  accepted,     \* mutating requests whose new store state was saved so far
  last,         \* the request that completed last, with its response
  call,         \* a direct call of one operation: its arguments and its result
  conflictLogs  \* the in-memory log of conflict reports, newest first

vars == <<db, req, connections, now, started, accepted, last, call, conflictLogs>>

Reqs == {"r1", "r2"}
\* the :storeName of the requests
StoreName == "sales"
Clients == {"c1", "c2"}
\* the clients that send requests
Senders == {"c1"}
UrlIds == {Str(1), Str(2)}

\* the items clients send in bulk: ids are strings or numbers
ItemA == [id |-> Str(1), stock |-> 10]
ItemB == [id |-> Num(2), price |-> 5]
ItemC == [id |-> Str(1), price |-> 7, updated_at |-> 9]

\* a client presents the version it last saw: none (0), a stale one, the current one
LastVersions == {0} \cup {v \in {db.currentVersion - 1, db.currentVersion} : v >= 0}

BulkRequests ==
  [data : {<<>>, <<ItemA>>, <<ItemA, ItemB>>, <<ItemC, ItemB>>}, clientId : Senders,
   strategy : {"field-level-merge"}, idField : {"id"}, lastVersion : LastVersions]

\* the JSON body of PUT and PATCH: some fields, with the sender's clientId
SingleBodies == {Spread(f, [clientId |-> c]) : f \in {[stock |-> 10], [price |-> 5]}, c \in Senders}
PatchBodies == {Spread([stock |-> 3], [clientId |-> c]) : c \in Senders}

Idle == [pc |-> "idle", op |-> "none", id |-> Undefined, body |-> <<>>,
         loaded |-> initStoreMetadata, conflicts |-> <<>>, event |-> <<>>, resp |-> <<>>]

NoLast == [op |-> "none", by |-> Unknown, status |-> 0,
           resp |-> <<>>, event |-> <<>>, delivered |-> {}]

NoCall == [fn |-> "none"]

Init ==
  /\ db = initStoreMetadata
  /\ req = [r \in Reqs |-> Idle]
  /\ connections = {}
  /\ now = 2
  /\ started = 0
  /\ accepted = 0
  /\ last = NoLast
  /\ call = NoCall
  /\ conflictLogs = <<>>

\* the handler runs up to `await db.load(storeName)`, which reads the store;
\* a request takes the first free slot
LoadWithin(r, op, id, body, limit) ==
  /\ req[r].pc = "idle"
  /\ r = "r2" => req["r1"].pc # "idle"
  /\ started < limit
  /\ started' = started + 1
  /\ req' = [req EXCEPT ![r] = [Idle EXCEPT !.pc = "loaded", !.op = op, !.id = id,
                                           !.body = body, !.loaded = db]]
  /\ UNCHANGED <<db, connections, now, accepted, last, call, conflictLogs>>

Load(r, op, id, body) == LoadWithin(r, op, id, body, MaxCalls)

BulkLoad(r) == \E b \in BulkRequests : Load(r, "bulk", Undefined, b)
PutLoad(r) == \E id \in UrlIds, body \in SingleBodies : Load(r, "put", id, body)
PatchLoad(r) == \E id \in UrlIds, body \in PatchBodies : Load(r, "patch", id, body)
DeleteLoad(r) == \E id \in UrlIds, body \in {[clientId |-> c] : c \in Senders} : Load(r, "delete", id, body)

\* the clientId a request names as its origin
Sender(q) ==
  IF q.op = "delete" THEN ClientOf(q.body, "server") ELSE ClientOf(q.body, Unknown)

\* what the handler of slot r computes from what it loaded
Body(q, t) ==
  CASE q.op = "bulk" -> BulkBody(q.loaded, q.body, t)
    [] q.op = "put" -> PutBody(q.loaded, q.id, q.body, t)
    [] q.op = "patch" -> PatchBody(q.loaded, q.id, q.body, t)
    [] q.op = "delete" -> DeleteBody(q.loaded, q.id, q.body, t)

\* PUT and PATCH call logConflicts before the save, the bulk upsert after it
LogsBeforeSave(op) == op \in {"put", "patch"}

\* the handler resumes after load and runs to `await db.save(...)`, which
\* replaces the persisted store, or to an early return (409, 404)
Resume(r) ==
  /\ req[r].pc = "loaded"
  /\ \E out \in {Body(req[r], now)} :
        IF out.status = 200
          THEN /\ db' = out.meta
               /\ accepted' = accepted + 1
               /\ req' = [req EXCEPT ![r].pc = "saved", ![r].event = out.event,
                                     ![r].resp = <<out.resp>>,
                                     ![r].conflicts = out.conflicts,
                                     ![r].loaded = initStoreMetadata]
               /\ conflictLogs' = IF LogsBeforeSave(req[r].op)
                                    THEN logConflicts(conflictLogs, StoreName, out.conflicts)
                                    ELSE conflictLogs
               /\ last' = last
          ELSE /\ req' = [req EXCEPT ![r] = Idle]
               /\ last' = [op |-> req[r].op, by |-> Sender(req[r]),
                           status |-> out.status, resp |-> <<out.resp>>, event |-> <<>>,
                           delivered |-> {}]
               /\ UNCHANGED <<db, accepted, conflictLogs>>
  /\ now' = now + 1
  /\ UNCHANGED <<connections, started>>

Continue(r) == Resume(r) /\ UNCHANGED call

\* `await db.save(...)` rejects: the handler has run up to the save, the
\* store is not replaced, the error leaves the handler and the request is
\* answered 500
SaveFails(r) ==
  /\ req[r].pc = "loaded"
  /\ \E out \in {Body(req[r], now)} :
        /\ out.status = 200
        /\ conflictLogs' = IF LogsBeforeSave(req[r].op)
                             THEN logConflicts(conflictLogs, StoreName, out.conflicts)
                             ELSE conflictLogs
  /\ req' = [req EXCEPT ![r] = Idle]
  /\ last' = [op |-> req[r].op, by |-> Sender(req[r]), status |-> 500,
              resp |-> <<>>, event |-> <<>>, delivered |-> {}]
  /\ now' = now + 1
  /\ UNCHANGED <<db, connections, started, accepted, call>>

\* the handler resumes after save: the change event goes out (ws.send throws
\* for the connections in dead), then the response
Finish(r) ==
  /\ req[r].pc = "saved"
  /\ \E dead \in SUBSET connections :
       LET b == broadcastChange(connections, dead)
           sent == req[r].event # <<>>
       IN /\ ~sent => dead = {}
          /\ connections' = IF sent THEN b.connections ELSE connections
          /\ last' = [op |-> req[r].op, by |-> Sender(req[r]),
                      status |-> 200, resp |-> req[r].resp, event |-> req[r].event,
                      delivered |-> IF sent THEN b.delivered ELSE {}]
  /\ conflictLogs' = IF LogsBeforeSave(req[r].op) THEN conflictLogs
                       ELSE logConflicts(conflictLogs, StoreName, req[r].conflicts)
  /\ req' = [req EXCEPT ![r] = Idle]
  /\ UNCHANGED <<db, now, started, accepted, call>>

\* NotificationManager.addConnection / removeConnection
addConnection(c) ==
  /\ c \notin connections
  /\ connections' = connections \cup {c}
  /\ UNCHANGED <<db, req, now, started, accepted, last, call, conflictLogs>>

removeConnection(c) ==
  /\ c \in connections
  /\ connections' = connections \ {c}
  /\ UNCHANGED <<db, req, now, started, accepted, last, call, conflictLogs>>

Next ==
  \/ \E r \in Reqs : BulkLoad(r)
  \/ \E r \in Reqs : PutLoad(r)
  \/ \E r \in Reqs : PatchLoad(r)
  \/ \E r \in Reqs : DeleteLoad(r)
  \/ \E r \in Reqs : Continue(r)
  \/ \E r \in Reqs : Finish(r)
  \/ \E c \in Clients : addConnection(c)
  \/ \E c \in Clients : removeConnection(c)

Spec == Init /\ [][Next]_vars

\* ------------------------------------------------- the merge called directly

\* a record: optional fields over a small range of values
Optional(f, S) == {<<>>} \cup {[x \in {f} |-> v] : v \in S}

MergeRecords ==
  {Spread(Spread(Spread(Spread([id |-> (Str(1))], a), b), c), u) :
     a \in Optional("stock", {5, 10}), b \in Optional("price", {5, 7}),
     c \in Optional("created_at", {1, 2, 3, BadDate}), u \in Optional("updated_at", {1, 2, 3, BadDate})}

InitMerge ==
  /\ db = initStoreMetadata
  /\ req = [r \in Reqs |-> Idle]
  /\ connections = {}
  /\ now = 2
  /\ started = 0
  /\ accepted = 0
  /\ last = NoLast
  /\ call \in [fn : {"merge"}, local : MergeRecords, remote : MergeRecords,
               strategy : {"field-level-merge"}]
  /\ conflictLogs = <<>>

\* mergeManager.mergeObjects(local, remote, {strategy})
MergeCall ==
  /\ call.fn = "merge"
  /\ call' = [fn |-> "merged", local |-> call.local, remote |-> call.remote,
              strategy |-> call.strategy,
              out |-> mergeObjects(call.local, call.remote, call.strategy, now)]
  /\ UNCHANGED <<db, req, connections, now, started, accepted, last, conflictLogs>>

NextMerge == MergeCall

SpecMerge == InitMerge /\ [][NextMerge]_vars

\* ---------------------------------------------------- the fan-out on its own
FanClients == Clients \cup {"c3"}

InitFanout ==
  /\ db = initStoreMetadata
  /\ req = [r \in Reqs |-> Idle]
  /\ connections = {}
  /\ now = 2
  /\ started = 0
  /\ accepted = 0
  /\ last = NoLast
  /\ call = NoCall
  /\ conflictLogs = <<>>

\* notificationManager.broadcast(event, data, excludeClientId), ws.send
\* throwing for the connections in dead
Broadcast(exclude, dead) ==
  /\ call' = [fn |-> "broadcast", exclude |-> exclude, before |-> connections,
              dead |-> dead, out |-> broadcast(connections, exclude, dead)]
  /\ connections' = broadcast(connections, exclude, dead).connections
  /\ UNCHANGED <<db, req, now, started, accepted, last, conflictLogs>>

NextFanout ==
  \/ \E c \in FanClients : addConnection(c)
  \/ \E c \in FanClients : removeConnection(c)
  \/ \E x \in {<<>>} \cup {<<c>> : c \in FanClients}, dead \in SUBSET connections : Broadcast(x, dead)

SpecFanout == InitFanout /\ [][NextFanout]_vars

\* ------------------------------------------- a store whose log is at its limit

FullStore ==
  [present |-> TRUE,
   data |-> <<[id |-> Str(1), stock |-> 10, clientId |-> "c1", created_at |-> 1,
               updated_at |-> 1, version |-> LogLimit, client_id |-> "c1"]>>,
   currentVersion |-> LogLimit,
   versionLog |-> [i \in 1..LogLimit |-> [version |-> i, operation |-> IF i = 1 THEN "bulk" ELSE "update", itemIds |-> <<Str(1)>>, clientId |-> "c1"]]]

InitLedger ==
  /\ db \in {initStoreMetadata, FullStore}
  /\ req = [r \in Reqs |-> Idle]
  /\ connections = {}
  /\ now = 2
  /\ started = 0
  /\ accepted = 0
  /\ last = NoLast
  /\ call = NoCall
  /\ conflictLogs = <<>>

NextLedger ==
  \/ \E r \in Reqs : BulkLoad(r)
  \/ \E r \in Reqs : PutLoad(r)
  \/ \E r \in Reqs : DeleteLoad(r)
  \/ \E r \in Reqs : Continue(r)
  \/ \E r \in Reqs : Finish(r)

SpecLedger == InitLedger /\ [][NextLedger]_vars

\* ------------------------------- payloads that carry a version of their own
StampedItem == [id |-> Str(1), stock |-> 10, version |-> 7]
StampedBodies == {[stock |-> 5, version |-> 7, clientId |-> c] : c \in Senders}

NextStamped ==
  \/ \E r \in Reqs :
       (\E b \in [data : {<<StampedItem>>, <<StampedItem, ItemB>>},
                   clientId : Senders, strategy : {"field-level-merge"},
                   idField : {"id"}, lastVersion : LastVersions]
          : Load(r, "bulk", Undefined, b))
  \/ \E r \in Reqs : (\E id \in UrlIds, body \in StampedBodies : Load(r, "put", id, body))
  \/ \E r \in Reqs : (\E id \in UrlIds, body \in StampedBodies : Load(r, "patch", id, body))
  \/ \E r \in Reqs : Continue(r)
  \/ \E r \in Reqs : Finish(r)

SpecStamped == Init /\ [][NextStamped]_vars

\* ------------------------------------------ handlers whose save may fail
NextFailure ==
  \/ \E r \in Reqs : BulkLoad(r)
  \/ \E r \in Reqs : PutLoad(r)
  \/ \E r \in Reqs : PatchLoad(r)
  \/ \E r \in Reqs : DeleteLoad(r)
  \/ \E r \in Reqs : Continue(r)
  \/ \E r \in Reqs : SaveFails(r)
  \/ \E r \in Reqs : Finish(r)

SpecFailure == Init /\ [][NextFailure]_vars

\* ------------------------------------------- the task route, POST /sync/tasks
MaxTasks == 2

\* the tasks a client submits: well-formed ones for two stores, and ones that
\* lack data, data.id, storeName or action, or name an action that is unknown
TaskKinds ==
  { [storeName |-> "products", action |-> "create", data |-> [id |-> 1, name |-> "a"]],
    [storeName |-> "products", action |-> "update", data |-> [id |-> 1, name |-> "b"]],
    [storeName |-> "products", action |-> "update", data |-> [id |-> 1, price |-> 2]],
    [storeName |-> "products", action |-> "delete", data |-> [id |-> 1]],
    [storeName |-> "customers", action |-> "create", data |-> [id |-> 1]],
    [storeName |-> "products", action |-> "create"],
    [storeName |-> "products", action |-> "create", data |-> [name |-> "a"]],
    [action |-> "create", data |-> [id |-> 1, name |-> "a"]],
    [storeName |-> "customers", data |-> [id |-> 1]],
    [storeName |-> "customers", action |-> "rename", data |-> [id |-> 1]] }

WithIds(tasks) == [i \in 1..Len(tasks) |-> Put(tasks[i], "id", Str(i))]

StoreNames == {"products", "customers"}

\* the checks of one task before the store is touched: <<>> or <<message>>
ValidationError_IdOptional(task) ==
  IF ~Has(task, "data")
    THEN <<[task |-> task["id"], error |-> "is missing 'data' or 'data.id'."]>>
  ELSE IF ~Has(task, "storeName") \/ ~Has(task, "action")
    THEN <<[task |-> task["id"], error |-> "is missing 'storeName' or 'action'."]>>
  ELSE IF task["action"] \notin {"create", "update", "delete"}
    THEN <<[task |-> task["id"], error |-> "Unknown action received"]>>
  ELSE <<>>

ValidationError(task) ==
  IF ~Has(task, "data") \/ ~Has(task["data"], "id")
    THEN <<[task |-> task["id"], error |-> "is missing 'data' or 'data.id'."]>>
  ELSE IF ~Has(task, "storeName") \/ ~Has(task, "action")
    THEN <<[task |-> task["id"], error |-> "is missing 'storeName' or 'action'."]>>
  ELSE IF task["action"] \notin {"create", "update", "delete"}
    THEN <<[task |-> task["id"], error |-> "Unknown action received"]>>
  ELSE <<>>

\* store.add(data) and store.delete(id) of the object store keyed by id
\* the variant that merges data into the record stored under its id
StoreAdd_Merge(store, data) ==
  LET prev == {d \in store : d["id"] = FieldOf(data, "id")}
  IN (store \ prev)
       \cup {[k \in DOMAIN d \cup DOMAIN data |-> IF k \in DOMAIN data THEN data[k] ELSE d[k]] :
               d \in IF prev = {} THEN {data} ELSE prev}

StoreAdd(store, data) == {d \in store : d["id"] # FieldOf(data, "id")} \cup {data}
StoreDelete(store, id) == {d \in store : d["id"] # id}

\* one turn of `for (const task of tasks)`: the task at position c.i is
\* validated, applied and announced, or caught; thrown says that the store
\* operation rejected
TaskTurn(c, thrown) ==
  LET task == c.tasks[c.i]
      err == ValidationError(task)
      failed(e) == [c EXCEPT !.i = c.i + 1,
                             !.failedTasks = Append(c.failedTasks, [id |-> task["id"], error |-> e])]
  IN IF err # <<>> THEN failed(err[1])
     ELSE IF thrown THEN failed([task |-> task["id"], error |-> "store"])
     ELSE [c EXCEPT !.i = c.i + 1,
                    !.stores[task["storeName"]] =
                       IF task["action"] = "delete"
                         THEN StoreDelete(c.stores[task["storeName"]], task["data"]["id"])
                         ELSE StoreAdd(c.stores[task["storeName"]], task["data"]),
                    !.processedTaskIds = Append(c.processedTaskIds, task["id"]),
                    !.events = Append(c.events, task)]

InitTasks ==
  /\ db = initStoreMetadata
  /\ req = [r \in Reqs |-> Idle]
  /\ connections \in SUBSET Clients
  /\ now = 2
  /\ started = 0
  /\ accepted = 0
  /\ last = NoLast
  /\ \E tasks \in (UNION {[1..n -> TaskKinds] : n \in 0..MaxTasks}) :
       call = [fn |-> "tasks", tasks |-> WithIds(tasks), i |-> 1, stores |-> [s \in StoreNames |-> {}],
               processedTaskIds |-> <<>>, failedTasks |-> <<>>, events |-> <<>>,
               status |-> 0]
  /\ conflictLogs = <<>>

\* the request is answered 400 when tasks is empty
TasksRejected ==
  /\ call.fn = "tasks"
  /\ call.tasks = <<>>
  /\ call' = [call EXCEPT !.fn = "answered", !.status = 400]
  /\ UNCHANGED <<db, req, connections, now, started, accepted, last, conflictLogs>>

\* one task of the list is handled; an applied task is broadcast as
\* sync:change, ws.send throwing for the connections in dead
TaskStep(thrown, dead) ==
  /\ call.fn = "tasks"
  /\ call.i <= Len(call.tasks)
  /\ \E out \in {TaskTurn(call, thrown)} :
       /\ call' = out
       /\ connections' = IF Len(out.events) > Len(call.events)
                           THEN broadcastChange(connections, dead).connections
                           ELSE connections
  /\ UNCHANGED <<db, req, now, started, accepted, last, conflictLogs>>

\* return c.json({success: true, processedTaskIds, failedTasks})
TasksAnswered ==
  /\ call.fn = "tasks"
  /\ call.tasks # <<>>
  /\ call.i > Len(call.tasks)
  /\ call' = [call EXCEPT !.fn = "answered", !.status = 200]
  /\ UNCHANGED <<db, req, connections, now, started, accepted, last, conflictLogs>>

NextTasks ==
  \/ TasksRejected
  \/ \E thrown \in BOOLEAN, dead \in SUBSET connections : TaskStep(thrown, dead)
  \/ TasksAnswered

SpecTasks == InitTasks /\ [][NextTasks]_vars

\* ------------------------------------------------ the conflict log on its own
MaxLogged == 3
ConflictStores == {"products", "customers"}

\* the response of GET /sync/:dbName/:storeName/conflicts
getConflicts(logs, storeName) ==
  LET storeConflicts == SelectSeq(logs, LAMBDA log : log.storeName = storeName)
  IN [conflicts |-> storeConflicts, count |-> Len(storeConflicts)]

\* the reports of one call: of record n, stock resolved to remote's value
ReportOf(n) == ConflictReport([id |-> Str(n)], [id |-> Str(n)], [stock |-> n])

InitConflicts ==
  /\ db = initStoreMetadata
  /\ req = [r \in Reqs |-> Idle]
  /\ connections = {}
  /\ now = 2
  /\ started = 0
  /\ accepted = 0
  /\ last = NoLast
  /\ call = NoCall
  /\ conflictLogs \in {<<>>, [i \in 1..MAX_CONFLICT_LOGS |-> [storeName |-> "products", conflicts |-> <<ReportOf(MAX_CONFLICT_LOGS + 1 - i)>>, resolved |-> TRUE]]}

\* logConflicts(storeName, conflicts) as a handler of store storeName calls it
LogConflicts(storeName, conflicts) ==
  /\ started < MaxLogged
  /\ started' = started + 1
  /\ conflictLogs' = logConflicts(conflictLogs, storeName, conflicts)
  /\ call' = [fn |-> "logConflicts", storeName |-> storeName, conflicts |-> conflicts]
  /\ UNCHANGED <<db, req, connections, now, accepted, last>>

\* GET /sync/:dbName/:storeName/conflicts
GetConflicts(storeName) ==
  /\ call' = [fn |-> "getConflicts", storeName |-> storeName,
              out |-> getConflicts(conflictLogs, storeName)]
  /\ UNCHANGED <<db, req, connections, now, started, accepted, last, conflictLogs>>

NextConflicts ==
  \/ \E s \in ConflictStores, n \in 0..2 :
        LogConflicts(s, [i \in 1..n |-> ReportOf(MAX_CONFLICT_LOGS + started + i)])
  \/ \E s \in ConflictStores : GetConflicts(s)

SpecConflicts == InitConflicts /\ [][NextConflicts]_vars

\* ------------------------------------- a client that reads, submits, retries
MaxGateCalls == 3

\* the store after client c1 created ItemA by a bulk upsert at time 1
SeededStore ==
  BulkBody(initStoreMetadata,
           [data |-> <<ItemA>>, clientId |-> "c1", strategy |-> "field-level-merge",
            idField |-> "id", lastVersion |-> 0], 1).meta

InitGate ==
  /\ db \in {initStoreMetadata, SeededStore}
  /\ req = [r \in Reqs |-> Idle]
  /\ connections = {}
  /\ now = 2
  /\ started = 0
  /\ accepted = 0
  /\ last = NoLast
  /\ call = NoCall
  /\ conflictLogs = <<>>

\* client c2 reads the store, GET /sync/:db/:store; call keeps what c2
\* learned last: the response, its version, and the store as it then stood
GateRead ==
  /\ call' = [fn |-> "get", version |-> GetAll(db).version, store |-> db, out |-> GetAll(db)]
  /\ call' # call
  /\ UNCHANGED <<db, req, connections, now, started, accepted, last, conflictLogs>>

GateBulkLoad(r) ==
  \E b \in [data : {<<ItemB>>}, clientId : {"c2"}, strategy : {"field-level-merge"}, idField : {"id"}, lastVersion : {IF call = NoCall THEN 0 ELSE call.version}] : LoadWithin(r, "bulk", Undefined, b, MaxGateCalls)

\* another writer, c1, PUTs record 1
GatePutLoad(r) ==
  \E body \in SingleBodies : LoadWithin(r, "put", Str(1), body, MaxGateCalls)

\* a handler resumes; c2 learns the serverVersion of a 409 it is answered
GateContinue(r) ==
  /\ Resume(r)
  /\ call' = IF req[r].op = "bulk" /\ req'[r] = Idle /\ last'.status = 409
               THEN [fn |-> "rejected", version |-> last'.resp[1].serverVersion,
                     store |-> db, out |-> last'.resp[1]]
               ELSE call

NextGate ==
  \/ GateRead
  \/ \E r \in Reqs : GateBulkLoad(r)
  \/ \E r \in Reqs : GatePutLoad(r)
  \/ \E r \in Reqs : GateContinue(r)
  \/ \E r \in Reqs : Finish(r)

SpecGate == InitGate /\ [][NextGate]_vars

\* --------------------------------- upserts under every strategy the caller names
MaxStrategyCalls == 2

\* incoming copies of record 1 that lack its stock: one dated later than the
\* stored copy, one without a date
ItemD == [id |-> Str(1), price |-> 7]

InitStrategy ==
  /\ db = SeededStore
  /\ req = [r \in Reqs |-> Idle]
  /\ connections = {}
  /\ now = 2
  /\ started = 0
  /\ accepted = 0
  /\ last = NoLast
  /\ call = NoCall
  /\ conflictLogs = <<>>

\* bulk payloads under every strategy the handler distinguishes
NextStrategy ==
  \/ \E r \in Reqs :
       (\E b \in [data : {<<ItemC>>, <<ItemD>>, <<ItemC, ItemB>>},
                   clientId : Senders, strategy : {"field-level-merge", "last-write-wins", "custom", "other"},
                   idField : {"id"}, lastVersion : LastVersions]
          : LoadWithin(r, "bulk", Undefined, b, MaxStrategyCalls))
  \/ \E r \in Reqs : (\E id \in UrlIds, body \in SingleBodies : LoadWithin(r, "put", id, body, MaxStrategyCalls))
  \/ \E r \in Reqs : (\E id \in UrlIds, body \in PatchBodies : LoadWithin(r, "patch", id, body, MaxStrategyCalls))
  \/ \E r \in Reqs : Continue(r)
  \/ \E r \in Reqs : Finish(r)

SpecStrategy == InitStrategy /\ [][NextStrategy]_vars

\* ------------------------------------- the fingerprint of nested JSON values
\* A JSON value with its key order: <<"num", n>>, <<"arr", elements>> or
\* <<"obj", members>>, members being <<key, value>> pairs as the text lists them
HashLeaves == {<<"num", 1>>, <<"num", 2>>}
\* one business key and one of keysToExclude, in the order of Array.sort
HashKeyOrder == <<"a", "version">>

\* the objects over the values of V: an ordered choice of distinct keys
ObjectsOver(V) ==
  {<<"obj", m>> : m \in {<<>>}
     \cup {<<<<k, v>>>> : k \in {HashKeyOrder[i] : i \in 1..Len(HashKeyOrder)}, v \in V}
     \cup {m \in {<<<<k, v>>, <<l, w>>>> : k \in {HashKeyOrder[i] : i \in 1..Len(HashKeyOrder)}, l \in {HashKeyOrder[i] : i \in 1..Len(HashKeyOrder)}, v \in V, w \in V} :
              m[1][1] # m[2][1]}}

HashRecords == ObjectsOver(HashLeaves \cup (ObjectsOver(HashLeaves)) \cup {<<"arr", <<o>>>> : o \in {<<"obj", <<>>>>} \cup ObjectsOver({<<"num", 1>>})})

\* the member of key k of an object's members, as <<>> or <<value>>
Member(m, k) ==
  IF \E i \in 1..Len(m) : m[i][1] = k
    THEN <<m[CHOOSE i \in 1..Len(m) : m[i][1] = k][2]>>
    ELSE <<>>

RECURSIVE normalizeValue_KeepsVersion(_)
\* the variant whose list of excluded keys lacks version
normalizeValue_KeepsVersion(data) ==
  IF data[1] = "arr"
    THEN <<"arr", [i \in 1..Len(data[2]) |-> normalizeValue_KeepsVersion(data[2][i])]>>
  ELSE IF data[1] = "obj"
    THEN <<"obj",
           LET kept == SelectSeq(HashKeyOrder,
                                 LAMBDA k : Member(data[2], k) # <<>>
                                            /\ k \notin keysToExclude \ {"version"})
           IN [i \in 1..Len(kept) |->
                 <<kept[i], normalizeValue_KeepsVersion(Member(data[2], kept[i])[1])>>]>>
  ELSE data

RECURSIVE normalizeValue(_)
\* normalizeForHash(data) on a nested value: arrays are mapped, objects are
\* rebuilt from Object.keys(data).sort() without keysToExclude, the rest is kept
normalizeValue(data) ==
  IF data[1] = "arr"
    THEN <<"arr", [i \in 1..Len(data[2]) |-> normalizeValue(data[2][i])]>>
  ELSE IF data[1] = "obj"
    THEN <<"obj",
           LET kept == SelectSeq(HashKeyOrder,
                                 LAMBDA k : Member(data[2], k) # <<>> /\ k \notin keysToExclude)
           IN [i \in 1..Len(kept) |-> <<kept[i], normalizeValue(Member(data[2], kept[i])[1])>>]>>
  ELSE data

\* generateHash(data): sha256 of JSON.stringify(normalizeForHash(data)), the
\* text being the value with its key order and sha256 taken collision free
hashValue(data) == normalizeValue(data)

InitHash ==
  /\ db = initStoreMetadata
  /\ req = [r \in Reqs |-> Idle]
  /\ connections = {}
  /\ now = 2
  /\ started = 0
  /\ accepted = 0
  /\ last = NoLast
  /\ call \in [fn : {"hash"}, left : HashRecords, right : HashRecords]
  /\ conflictLogs = <<>>

\* generateHash(local) === generateHash(remote), as mergeObjects asks
HashCall ==
  /\ call.fn = "hash"
  /\ call' = [fn |-> "hashed", left |-> call.left, right |-> call.right,
              same |-> hashValue(call.left) = hashValue(call.right)]
  /\ UNCHANGED <<db, req, connections, now, started, accepted, last, conflictLogs>>

NextHash == HashCall

SpecHash == InitHash /\ [][NextHash]_vars

\* ------------------------------- the stock channel, StockWebSocketManager
MaxMessages == 2
StockClients == {"c1", "c2", "c3"}
\* the order in which this.connections.forEach visits the clients
StockClientOrder == <<"c1", "c2", "c3">>

StockItem(field, n) == <<"object", ([productId |-> <<"number", 1>>] @@ (field :> <<"number", n>>))>>
StockMsg(event, data) == <<"object", ([event |-> <<"string", event>>, data |-> data])>>

\* the texts a client sends
RawMessages ==
  { "{bad", "null", "[]",
    "{\"data\":[{\"productId\":1,\"stock\":3}]}",
    "{\"event\":\"stock:error\",\"data\":[{\"productId\":1,\"stock\":3}]}",
    "{\"event\":\"stock:add\",\"data\":{\"productId\":1,\"quantity\":1}}",
    "{\"event\":\"stock:sync\",\"data\":[]}",
    "{\"event\":\"stock:update\",\"data\":[{\"productId\":1,\"stock\":-1}]}",
    "{\"event\":\"stock:add\",\"data\":[{\"productId\":1,\"quantity\":0}]}",
    "{\"event\":\"stock:subtract\",\"data\":[{\"productId\":\"1\",\"quantity\":2}]}",
    "{\"event\":\"stock:update\",\"data\":[{\"productId\":1,\"stock\":3}]}",
    "{\"event\":\"stock:add\",\"data\":[{\"productId\":1,\"quantity\":1}]}",
    "{\"event\":\"stock:subtract\",\"data\":[{\"productId\":1,\"quantity\":2}]}",
    "{\"event\":\"stock:sync\",\"data\":[{\"productId\":1,\"stock\":3}]}" }

\* JSON.parse(rawMessage): <<value>>, or <<>> when it throws
JSONparse(rawMessage) ==
  CASE rawMessage = "null" -> << <<"null">> >>
    [] rawMessage = "[]" -> <<<<"array", (<<>>)>>>>
    [] rawMessage = "{\"data\":[{\"productId\":1,\"stock\":3}]}"
         -> <<<<"object", ([data |-> <<"array", (<<StockItem("stock", 3)>>)>>])>>>>
    [] rawMessage = "{\"event\":\"stock:error\",\"data\":[{\"productId\":1,\"stock\":3}]}"
         -> <<StockMsg("stock:error", <<"array", (<<StockItem("stock", 3)>>)>>)>>
    [] rawMessage = "{\"event\":\"stock:add\",\"data\":{\"productId\":1,\"quantity\":1}}"
         -> <<StockMsg("stock:add", StockItem("quantity", 1))>>
    [] rawMessage = "{\"event\":\"stock:sync\",\"data\":[]}"
         -> <<StockMsg("stock:sync", <<"array", (<<>>)>>)>>
    [] rawMessage = "{\"event\":\"stock:update\",\"data\":[{\"productId\":1,\"stock\":-1}]}"
         -> <<StockMsg("stock:update", <<"array", (<<StockItem("stock", -1)>>)>>)>>
    [] rawMessage = "{\"event\":\"stock:add\",\"data\":[{\"productId\":1,\"quantity\":0}]}"
         -> <<StockMsg("stock:add", <<"array", (<<StockItem("quantity", 0)>>)>>)>>
    [] rawMessage = "{\"event\":\"stock:subtract\",\"data\":[{\"productId\":\"1\",\"quantity\":2}]}"
         -> <<StockMsg("stock:subtract",
                       <<"array", (<<<<"object", ([productId |-> <<"string", "1">>, quantity |-> <<"number", 2>>])>>>>)>>)>>
    [] rawMessage = "{\"event\":\"stock:update\",\"data\":[{\"productId\":1,\"stock\":3}]}"
         -> <<StockMsg("stock:update", <<"array", (<<StockItem("stock", 3)>>)>>)>>
    [] rawMessage = "{\"event\":\"stock:add\",\"data\":[{\"productId\":1,\"quantity\":1}]}"
         -> <<StockMsg("stock:add", <<"array", (<<StockItem("quantity", 1)>>)>>)>>
    [] rawMessage = "{\"event\":\"stock:subtract\",\"data\":[{\"productId\":1,\"quantity\":2}]}"
         -> <<StockMsg("stock:subtract", <<"array", (<<StockItem("quantity", 2)>>)>>)>>
    [] rawMessage = "{\"event\":\"stock:sync\",\"data\":[{\"productId\":1,\"stock\":3}]}"
         -> <<StockMsg("stock:sync", <<"array", (<<StockItem("stock", 3)>>)>>)>>
    [] OTHER -> <<>>

validEvents == {"stock:update", "stock:add", "stock:subtract", "stock:sync"}

validateMessageFormat(message) ==
  /\ message[1] = "object"
  /\ Has(message[2], "event")
  /\ message[2]["event"][1] = "string"
  /\ message[2]["event"][2] # ""
  /\ Has(message[2], "data")
  /\ message[2]["data"][1] = "array"
  /\ message[2]["event"][2] \in validEvents

IsNumber(item, field) ==
  item[1] = "object" /\ Has(item[2], field) /\ item[2][field][1] = "number"

validateEventData(event, data) ==
  /\ data[1] = "array"
  /\ Len(data[2]) # 0
  /\ event \in validEvents
  /\ \A i \in 1..Len(data[2]) :
       LET item == data[2][i]
       IN /\ IsNumber(item, "productId")
          /\ IF event \in {"stock:update", "stock:sync"}
               THEN IsNumber(item, "stock") /\ item[2]["stock"][2] >= 0
               ELSE IsNumber(item, "quantity") /\ item[2]["quantity"][2] > 0

ValidationResults ==
  { <<>>,
    <<[valid |-> FALSE]>>,
    <<[valid |-> FALSE, error |-> "Stock insuficiente"]>>,
    <<[valid |-> TRUE]>>,
    <<[valid |-> TRUE, validatedData |-> (<<"array", (<<StockItem("stock", 2)>>)>>)]>> }

\* sendError: the calls of ws.send it makes, threw telling whether send throws
sendError(conns, clientId, error, reason, originalEvent, threw) ==
  IF clientId \notin conns THEN <<>>
  ELSE <<[to |-> clientId,
          message |-> [event |-> "stock:error",
                       data |-> [error |-> error, reason |-> reason,
                                 originalEvent |-> originalEvent],
                       clientId |-> <<clientId>>],
          threw |-> threw]>>

\* the variant that sends to the originating client as well
broadcastMessage_Echo(conns, event, data, excludeClientId, dead) ==
  LET targets == SelectSeq(StockClientOrder, LAMBDA c : c \in conns)
  IN [sent |-> [i \in 1..Len(targets) |->
                  [to |-> targets[i],
                   message |-> [event |-> event, data |-> data, clientId |-> excludeClientId],
                   threw |-> targets[i] \in dead]],
      conns |-> conns \ dead]

\* broadcastMessage: the calls of ws.send it makes and the connections it keeps
broadcastMessage(conns, event, data, excludeClientId, dead) ==
  LET targets == SelectSeq(StockClientOrder,
                           LAMBDA c : c \in conns /\ <<c>> # excludeClientId)
      deadConnections == {targets[i] : i \in 1..Len(targets)} \cap dead
  IN [sent |-> [i \in 1..Len(targets) |->
                  [to |-> targets[i],
                   message |-> [event |-> event, data |-> data, clientId |-> excludeClientId],
                   threw |-> targets[i] \in dead]],
      conns |-> conns \ deadConnections]

\* broadcastStockUpdate, -Addition, -Subtraction and -Sync
broadcastStock(conns, event, data, excludeClientId, dead) ==
  IF data[1] # "array" \/ Len(data[2]) = 0
    THEN [sent |-> <<>>, conns |-> conns]
    ELSE broadcastMessage(conns, event, data, excludeClientId, dead)

\* handleMessage up to `await this.validator(event, data)`, to the end when
\* no validator is set
handleMessageStart(conns, rawMessage, clientId, hasValidator, dead) ==
  LET parsed == JSONparse(rawMessage)
      threw == clientId \in dead
      done(sent, kept, outcome) ==
        [stage |-> "idle", sent |-> sent, conns |-> kept, outcome |-> outcome]
  IN IF parsed = <<>>
       THEN done(sendError(conns, clientId, "Processing error", "SyntaxError", <<>>, threw),
                 conns, "error")
     ELSE IF ~validateMessageFormat(parsed[1])
       THEN done(sendError(conns, clientId, "Invalid message format",
                           "El formato del mensaje es invalido", <<>>, threw),
                 conns, "error")
     ELSE LET event == parsed[1][2]["event"][2]
              data == parsed[1][2]["data"]
          IN IF ~validateEventData(event, data)
               THEN done(sendError(conns, clientId, "Invalid data format",
                                   "Los datos para el evento son invalidos", <<event>>, threw),
                         conns, "error")
             ELSE IF hasValidator
               THEN [stage |-> "validating", sent |-> <<>>, conns |-> conns, outcome |-> "none"]
             ELSE LET b == broadcastStock(conns, event, data, <<clientId>>, dead)
                  IN done(b.sent, b.conns, "broadcast")

\* handleMessage from the validator's answer on: message.data takes the
\* validated data, the broadcast takes the data destructured before
handleMessageEnd(conns, message, clientId, validationResult, dead) ==
  LET event == message[2]["event"][2]
      data == message[2]["data"]
      threw == clientId \in dead
  IN IF validationResult = <<>>
       THEN [sent |-> sendError(conns, clientId, "Processing error", "validator", <<>>, threw),
             conns |-> conns, outcome |-> "error", message |-> message]
     ELSE IF ~validationResult[1].valid
       THEN [sent |-> sendError(conns, clientId, "Validation failed",
                                IF Has(validationResult[1], "error")
                                  THEN validationResult[1].error
                                  ELSE "Los datos no pasaron la validacion",
                                <<event>>, threw),
             conns |-> conns, outcome |-> "error", message |-> message]
     ELSE LET b == broadcastStock(conns, event, data, <<clientId>>, dead)
          IN [sent |-> b.sent, conns |-> b.conns, outcome |-> "broadcast",
              message |-> IF Has(validationResult[1], "validatedData")
                            THEN <<"object", (Put(message[2], "data", validationResult[1].validatedData))>>
                            ELSE message]

InitStock ==
  /\ db = initStoreMetadata
  /\ req = [r \in Reqs |-> Idle]
  /\ connections \in SUBSET StockClients
  /\ now = 2
  /\ started = 0
  /\ accepted = 0
  /\ last = NoLast
  /\ \E hasValidator \in BOOLEAN :
       call = [fn |-> "stock", validator |-> hasValidator, handled |-> 0, stage |-> "idle",
               rawMessage |-> "", clientId |-> "", message |-> <<>>, result |-> <<>>,
               sent |-> <<>>, outcome |-> "none"]
  /\ conflictLogs = <<>>

\* addConnection and removeConnection
StockConnect(c) ==
  /\ call.fn = "stock"
  /\ c \notin connections
  /\ connections' = connections \cup {c}
  /\ UNCHANGED <<db, req, now, started, accepted, last, call, conflictLogs>>

StockDisconnect(c) ==
  /\ call.fn = "stock"
  /\ c \in connections
  /\ connections' = connections \ {c}
  /\ UNCHANGED <<db, req, now, started, accepted, last, call, conflictLogs>>

\* a client's text arrives; ws.send throws for the connections in dead
StockReceive(rawMessage, clientId, dead) ==
  /\ call.fn = "stock"
  /\ call.stage = "idle"
  /\ call.handled < MaxMessages
  /\ \E out \in {handleMessageStart(connections, rawMessage, clientId, call.validator, dead)} :
       /\ call' = [call EXCEPT !.stage = out.stage, !.rawMessage = rawMessage,
                               !.clientId = clientId, !.message = JSONparse(rawMessage),
                               !.result = <<>>, !.sent = out.sent, !.outcome = out.outcome,
                               !.handled = IF out.stage = "idle" THEN @ + 1 ELSE @]
       /\ connections' = out.conns
  /\ UNCHANGED <<db, req, now, started, accepted, last, conflictLogs>>

\* the validator settles and handleMessage runs to its end
StockValidated(validationResult, dead) ==
  /\ call.fn = "stock"
  /\ call.stage = "validating"
  /\ \E out \in {handleMessageEnd(connections, call.message[1], call.clientId,
                                  validationResult, dead)} :
       /\ call' = [call EXCEPT !.stage = "idle", !.message = <<out.message>>,
                               !.result = <<validationResult>>, !.sent = out.sent,
                               !.outcome = out.outcome, !.handled = @ + 1]
       /\ connections' = out.conns
  /\ UNCHANGED <<db, req, now, started, accepted, last, conflictLogs>>

NextStock ==
  \/ \E c \in StockClients : StockConnect(c)
  \/ \E c \in StockClients : StockDisconnect(c)
  \/ \E rawMessage \in RawMessages, clientId \in StockClients, dead \in SUBSET connections :
       StockReceive(rawMessage, clientId, dead)
  \/ \E validationResult \in ValidationResults, dead \in SUBSET connections :
       StockValidated(validationResult, dead)

SpecStock == InitStock /\ [][NextStock]_vars

\* ------------------------------------- upserts whose payload carries no date
MaxUndatedCalls == 2

InitUndated ==
  /\ db = SeededStore
  /\ req = [r \in Reqs |-> Idle]
  /\ connections = {}
  /\ now = 2
  /\ started = 0
  /\ accepted = 0
  /\ last = NoLast
  /\ call = NoCall
  /\ conflictLogs = <<>>

\* the bulk payloads carry no updated_at: a record absent from the store,
\* record 1 with another stock, and record 1 with only a synced_at
NextUndated ==
  \/ \E r \in Reqs :
       (\E b \in [data : {<<ItemD>>, <<[id |-> Str(1), stock |-> 3]>>, <<[id |-> Str(1), stock |-> 10, synced_at |-> 1]>>},
                   clientId : Senders, strategy : {"field-level-merge", "last-write-wins"},
                   idField : {"id"}, lastVersion : LastVersions]
          : LoadWithin(r, "bulk", Undefined, b, MaxUndatedCalls))
  \/ \E r \in Reqs : (\E id \in UrlIds, body \in SingleBodies : LoadWithin(r, "put", id, body, MaxUndatedCalls))
  \/ \E r \in Reqs : (\E id \in UrlIds, body \in PatchBodies : LoadWithin(r, "patch", id, body, MaxUndatedCalls))
  \/ \E r \in Reqs : Continue(r)
  \/ \E r \in Reqs : Finish(r)

SpecUndated == InitUndated /\ [][NextUndated]_vars

\* --------------------------------------- one bulk payload submitted repeatedly
MaxReplays == 2
MaxReplayItems == 2

\* the payload has one or two items of record 1, dated before, at and after
\* the server's clock or not dated; the store is empty or seeded
InitReplay ==
  /\ db \in {initStoreMetadata, SeededStore}
  /\ req = [r \in Reqs |-> Idle]
  /\ connections = {}
  /\ now = 2
  /\ started = 0
  /\ accepted = 0
  /\ last = NoLast
  /\ call \in [fn : {"replay"},
               data : (UNION {[1..n -> {Spread([id |-> Str(1), stock |-> s], u) :
                                          s \in {5, 7},
                                          u \in Optional("updated_at", {1, 2, 3, 4})}] :
                              n \in 1..MaxReplayItems}),
               strategy : {"field-level-merge", "last-write-wins"}, first : {<<>>}]
  /\ conflictLogs = <<>>

\* the client submits its payload: the first time with the version of the
\* store it has read, then with the version the last response returned
ReplaySubmit ==
  /\ call.fn = "replay"
  /\ started > 0 => last.status = 200
  /\ req' = [req EXCEPT !["r1"] =
               [Idle EXCEPT !.pc = "loaded", !.op = "bulk", !.loaded = db,
                            !.body = [data |-> call.data, clientId |-> "c1",
                                      strategy |-> call.strategy, idField |-> "id",
                                      lastVersion |-> IF started = 0 THEN db.currentVersion
                                                      ELSE last.resp[1].version]]]
  /\ req["r1"].pc = "idle"
  /\ started < MaxReplays
  /\ started' = started + 1
  /\ UNCHANGED <<db, connections, now, accepted, last, call, conflictLogs>>

\* the handler resumes; the records the first submission saved are kept aside
ReplayContinue ==
  /\ call.fn = "replay"
  /\ Resume("r1")
  /\ call' = IF call.first = <<>> /\ req'["r1"].pc = "saved"
               THEN [call EXCEPT !.first = <<db'.data>>]
               ELSE call

NextReplay ==
  \/ ReplaySubmit
  \/ ReplayContinue
  \/ (call.fn = "replay" /\ Finish("r1"))

SpecReplay == InitReplay /\ [][NextReplay]_vars

\* ------------------------- single-record writes of a caller that is behind
MaxUngatedCalls == 2

\* bodies of PUT, PATCH and DELETE with the version the caller last saw
UngatedBodies ==
  {Spread([clientId |-> "c1", stock |-> 5], v) : v \in Optional("lastVersion", {0})}

InitUngated ==
  /\ db \in {initStoreMetadata, SeededStore}
  /\ req = [r \in Reqs |-> Idle]
  /\ connections = {}
  /\ now = 2
  /\ started = 0
  /\ accepted = 0
  /\ last = NoLast
  /\ call = NoCall
  /\ conflictLogs = <<>>

\* single writes with and without a lastVersion older than the store's
NextUngated ==
  \/ \E r \in Reqs :
       (\E b \in [data : {<<ItemA>>},
                   clientId : Senders, strategy : {"field-level-merge"},
                   idField : {"id"}, lastVersion : LastVersions]
          : LoadWithin(r, "bulk", Undefined, b, MaxUngatedCalls))
  \/ \E r \in Reqs : (\E id \in UrlIds, body \in UngatedBodies : LoadWithin(r, "put", id, body, MaxUngatedCalls))
  \/ \E r \in Reqs : (\E id \in UrlIds, body \in UngatedBodies : LoadWithin(r, "patch", id, body, MaxUngatedCalls))
  \/ \E r \in Reqs : (\E id \in UrlIds, body \in UngatedBodies : LoadWithin(r, "delete", id, body, MaxUngatedCalls))
  \/ \E r \in Reqs : Continue(r)
  \/ \E r \in Reqs : Finish(r)

SpecUngated == InitUngated /\ [][NextUngated]_vars

\* ------------------------------------------------------------------ claims
Quiescent == \A r \in Reqs : req[r].pc = "idle"
Continues(r) == req[r].pc = "loaded" /\ req'[r] # req[r]
Accepts(r) == Continues(r) /\ req'[r].pc = "saved"
LoadedVersion(r) == IF req[r].loaded.present THEN req[r].loaded.currentVersion ELSE 0

\* C1: every accepted mutating call moves the store's currentVersion up by
\* exactly 1 and makes the log one entry longer (no truncation at this size),
\* so that the version and the log length equal the number of accepted calls.
C1_LedgerAccounting ==
  [][\A r \in Reqs : Accepts(r) =>
        /\ db'.currentVersion = db.currentVersion + 1
        /\ Len(db'.versionLog) = Len(db.versionLog) + 1
        /\ db'.currentVersion = accepted']_vars

\* C2: a bulk upsert whose lastVersion is below the currentVersion it loaded is
\* answered 409 {success:false, needsFullSync:true, serverVersion} and changes
\* neither the persisted store nor the registry, and sends no event.
C2_StaleBulkRejected ==
  [][\A r \in Reqs :
        (/\ Continues(r)
         /\ req[r].op = "bulk"
         /\ req[r].body.lastVersion < LoadedVersion(r)) =>
        /\ db' = db
        /\ accepted' = accepted
        /\ connections' = connections
        /\ req'[r] = Idle
        /\ last' = [op |-> "bulk", by |-> req[r].body.clientId, status |-> 409,
                    resp |-> <<[success |-> FALSE, needsFullSync |-> TRUE,
                                serverVersion |-> LoadedVersion(r)]>>,
                    event |-> <<>>, delivered |-> {}]]_vars

\* a stale bulk upsert has been answered while the store stands at a version > 0
C2_Witness ==
  /\ last.op = "bulk" /\ last.status = 409
  /\ db.currentVersion > 0
  /\ last.resp[1].serverVersion = db.currentVersion

\* C3: once the calls in flight have completed, the persisted store reflects
\* every accepted call: the version advanced once per accepted call and each
\* accepted call has its own log entry, with distinct versions.
C3_AtomicPerStore ==
  Quiescent =>
    /\ db.currentVersion = accepted
    /\ Len(db.versionLog) = accepted
    /\ \A i, j \in 1..Len(db.versionLog) :
         i # j => db.versionLog[i].version # db.versionLog[j].version

\* the case of C4: both copies carry stock (A) and price (B); against the base
\* [stock |-> local.stock, price |-> remote.price] the stored copy changed only
\* price and the incoming copy changed only stock
TwoSidedEdit ==
  /\ call.fn = "merged"
  /\ call.strategy = "field-level-merge"
  /\ Has(call.local, "stock") /\ Has(call.remote, "stock")
  /\ Has(call.local, "price") /\ Has(call.remote, "price")
  /\ call.local["stock"] # call.remote["stock"]
  /\ call.local["price"] # call.remote["price"]

Holding(meta, id) ==
  {i \in 1..Len(meta.data) : Has(meta.data[i], "id") /\ LooseEq(meta.data[i]["id"], id)}

\* C5: for every V the differential read returns exactly one entry, the stored
\* record, for each id that a log entry newer than V names and the store still
\* holds, and nothing else.
C5_DifferentialCompleteness ==
  \A V \in 0..MaxCalls :
    LET out == changesSince(db, V).data
        ids == ChangedIds(db, V)
    IN /\ \A id \in ids :
            Holding(db, id) # {} =>
              Cardinality({j \in 1..Len(out) : LooseEq(out[j]["id"], id)}) = 1
       /\ \A j \in 1..Len(out) :
            /\ \E i \in 1..Len(db.data) : db.data[i] = out[j]
            /\ \E id \in ids : LooseEq(out[j]["id"], id)

\* C6: a broadcast that excludes X attempts every registered connection other
\* than X and does not send to X.
C6_FanoutExclusion ==
  call.fn = "broadcast" =>
    /\ call.out.attempted = {c \in call.before : <<c>> # call.exclude}
    /\ \A c \in call.out.delivered : <<c>> # call.exclude
    /\ call.out.delivered = call.out.attempted \ call.dead

\* a broadcast excluded a registered connection and reached another one
C6_Witness ==
  /\ call.fn = "broadcast"
  /\ call.exclude # <<>>
  /\ call.exclude[1] \in call.before
  /\ call.out.delivered # {}

\* C7: the change event of an accepted call is not delivered to the connection
\* of the client that caused it.
C7_NoEchoToOrigin ==
  (last.status = 200 /\ last.event # <<>>) => last.by \notin last.delivered

IdsOf(items) == {FieldOf(items[i], "id") : i \in 1..Len(items)}

UpdatesOneCreatesOne(r) ==
  /\ Accepts(r) /\ req[r].op = "bulk"
  /\ Len(req[r].body.data) = 2
  /\ LoadedVersion(r) > 0
  /\ \E i, j \in 1..2 :
       /\ i # j
       /\ \E k \in 1..Len(req[r].loaded.data) :
            FieldOf(req[r].loaded.data[k], "id") = req[r].body.data[i]["id"]
       /\ \A k \in 1..Len(req[r].loaded.data) :
            FieldOf(req[r].loaded.data[k], "id") # req[r].body.data[j]["id"]

C10_LogVersionsIncrease ==
  LET log == db.versionLog
  IN /\ \A i \in 1..(Len(log) - 1) : log[i].version < log[i + 1].version
     /\ Len(log) > 0 => log[Len(log)].version = db.currentVersion

\* the log was cut to LogKeep entries and has grown again since
C10_Witness ==
  /\ db.currentVersion = LogLimit + 2
  /\ Len(db.versionLog) = LogKeep + 1

\* the version the call of slot r allocates: one above the version it loaded
AllocatedVersion(r) == LoadedVersion(r) + 1

\* the records the call of slot r writes, as found in the store it saves
Written(r, data) ==
  IF req[r].op = "bulk"
    THEN {k \in 1..Len(data) :
            \E i \in 1..Len(req[r].body.data) :
               FieldOf(data[k], "id") = FieldOf(req[r].body.data[i], "id")}
  ELSE IF req[r].op = "delete" THEN {}
  ELSE {k \in 1..Len(data) : data[k] = req'[r].resp[1].data}

\* C11: every record a call writes carries the version that call allocated,
\* whatever version its payload carried; every other record is left as it
\* was loaded; no stored record's version exceeds the store's currentVersion.
C11_RecordVersionIsWriters ==
  [][\A r \in Reqs : Accepts(r) =>
        /\ req[r].op \in {"put", "patch"} => Written(r, db'.data) # {}
        /\ \A k \in Written(r, db'.data) : db'.data[k]["version"] = AllocatedVersion(r)
        /\ \A k \in 1..Len(db'.data) :
              \/ k \in Written(r, db'.data)
              \/ \E j \in 1..Len(req[r].loaded.data) : db'.data[k] = req[r].loaded.data[j]
        /\ \A k \in 1..Len(db'.data) :
              /\ Has(db'.data[k], "version")
              /\ db'.data[k]["version"] <= db'.currentVersion]_vars

\* a payload that carried version 7 was saved on a store at version 1 and
\* its record carries version 2
C11_Witness ==
  \E r \in Reqs :
    /\ req[r].pc = "saved" /\ req[r].op = "bulk"
    /\ req[r].body.data[1]["version"] = 7
    /\ db.currentVersion = 2
    /\ \E k \in 1..Len(db.data) :
         db.data[k]["id"] = Str(1) /\ db.data[k]["version"] = 2

\* the records of data that PUT, PATCH and DELETE of id would find
RecordsOf(data, id) ==
  {k \in 1..Len(data) : Has(data[k], "id") /\ LooseEq(data[k]["id"], id)}

\* the case of C12: the PUT {price: 5} of slot r is saved right after a PUT
\* {stock: 10} of the same id was, nothing else having written in between
PutAfterPut(r) ==
  /\ Accepts(r) /\ req[r].op = "put"
  /\ \A q \in Reqs \ {r} : req[q].pc = "idle"
  /\ req[r].loaded = db
  /\ Has(req[r].body, "price") /\ ~Has(req[r].body, "stock")
  /\ last.op = "put" /\ last.status = 200
  /\ Has(last.resp[1].data, "stock") /\ ~Has(last.resp[1].data, "price")
  /\ db.currentVersion = last.resp[1].version
  /\ db.versionLog[Len(db.versionLog)].itemIds = <<req[r].id>>

\* C12: after PUT id {stock: 10} and then PUT id {price: 5} the store holds
\* one record for id, with stock 10 and price 5, and the second call took the
\* version right after the first one's.
C12_SuccessivePutsAccumulate ==
  [][\A r \in Reqs : PutAfterPut(r) =>
        /\ Cardinality(RecordsOf(db'.data, req[r].id)) = 1
        /\ \A k \in RecordsOf(db'.data, req[r].id) :
              /\ FieldOf(db'.data[k], "stock") = 10
              /\ FieldOf(db'.data[k], "price") = 5
        /\ db'.currentVersion = last.resp[1].version + 1]_vars

\* the case of C13: the PUT or PATCH of slot r finds its record and its body
\* has field f with another value than the record
SubmitsNewValue(r, f) ==
  /\ Accepts(r) /\ req[r].op \in {"put", "patch"}
  /\ FindIndex(req[r].loaded.data, req[r].id) # 0
  /\ Has(req[r].body, f)
  /\ Has(req[r].loaded.data[FindIndex(req[r].loaded.data, req[r].id)], f)
  /\ req[r].loaded.data[FindIndex(req[r].loaded.data, req[r].id)][f] # req[r].body[f]

\* C13: a PUT or PATCH whose payload gives an existing record's field another
\* value returns and saves the record with the payload's value, stamped with
\* the version after the loaded one.
C13_SingleUpsertAppliesValue ==
  [][\A r \in Reqs : \A f \in {"stock", "price"} :
        SubmitsNewValue(r, f) =>
          /\ req'[r].resp[1].data[f] = req[r].body[f]
          /\ db'.data[FindIndex(req[r].loaded.data, req[r].id)][f] = req[r].body[f]
          /\ req'[r].resp[1].data["version"] = AllocatedVersion(r)]_vars

\* a merge has been called directly and has returned
Merged == call.fn = "merged"

\* the fields the application owns, as against the bookkeeping ones
BusinessFields == {"stock", "price"}

\* L and R both have business field f, with different values, and agree on
\* every other business field
DiffersOnlyIn(L, R, f) ==
  /\ Has(L, f) /\ Has(R, f) /\ L[f] # R[f]
  /\ \A g \in BusinessFields \ {f} :
        /\ Has(L, g) <=> Has(R, g)
        /\ Has(L, g) => L[g] = R[g]

\* the effective timestamp as the claims word it: updated_at, else
\* created_at, else the zero time
StatedTime(o) ==
  IF "updated_at" \in DOMAIN o THEN ParseDate(o["updated_at"])
  ELSE IF "created_at" \in DOMAIN o THEN ParseDate(o["created_at"])
  ELSE 0

\* C14: when L and R differ in exactly one business field f, the merged f is
\* R's if R's effective timestamp is later and L's if L's is later.
C14_FieldIsolation ==
  Merged =>
    \A f \in BusinessFields :
      DiffersOnlyIn(call.local, call.remote, f) =>
        /\ Gt(StatedTime(call.remote), StatedTime(call.local))
              => call.out.merged[f] = call.remote[f]
        /\ Gt(StatedTime(call.local), StatedTime(call.remote))
              => call.out.merged[f] = call.local[f]

\* local (updated_at 3 over created_at 1) is later than remote (created_at 2
\* only) and its stock was kept
C14_Witness ==
  /\ Merged
  /\ DiffersOnlyIn(call.local, call.remote, "stock")
  /\ Has(call.local, "updated_at") /\ call.local["updated_at"] = 3
  /\ Has(call.local, "created_at") /\ call.local["created_at"] = 1
  /\ ~Has(call.remote, "updated_at")
  /\ Has(call.remote, "created_at") /\ call.remote["created_at"] = 2
  /\ call.out.merged["stock"] = call.local["stock"]

\* the fields the conflict report of the returned merge names
ReportedFields ==
  IF call.out.conflict = <<>> THEN {} ELSE DOMAIN call.out.conflict[1].resolvedFields

\* the fields both records have, with different values
ArbitratedFields(L, R) == {k \in (DOMAIN L) \cap (DOMAIN R) : L[k] # R[k]}

\* C15: the report names exactly the arbitrated fields: {f} when L and R
\* differ in business field f only; there is no report when remote only
\* fills fields local lacks, or when only bookkeeping fields differ.
C15_ReportNamesArbitratedFields ==
  Merged =>
    /\ \A f \in BusinessFields :
          (/\ DiffersOnlyIn(call.local, call.remote, f)
           /\ ArbitratedFields(call.local, call.remote) = {f}) => ReportedFields = {f}
    /\ ArbitratedFields(call.local, call.remote) = {} => ReportedFields = {}
    /\ ArbitratedFields(call.local, call.remote) \subseteq keysToExclude
          /\ generateHash(call.local) = generateHash(call.remote) => ReportedFields = {}

\* o carries timestamp field k with a value Date can parse
HasDate(o, k) == Has(o, k) /\ o[k] # BadDate

\* C16: when L and R have the same fingerprint the merge has L's content and
\* no conflict, and its updated_at is the later of the two updated_at (L's
\* when R has none).
C16_IdempotentMerge ==
  (Merged /\ generateHash(call.local) = generateHash(call.remote)) =>
    /\ generateHash(call.out.merged) = generateHash(call.local)
    /\ call.out.conflict = <<>>
    /\ (HasDate(call.local, "updated_at") /\ HasDate(call.remote, "updated_at")) =>
          /\ Has(call.out.merged, "updated_at")
          /\ call.out.merged["updated_at"] =
                IF call.remote["updated_at"] > call.local["updated_at"]
                  THEN call.remote["updated_at"] ELSE call.local["updated_at"]
    /\ (HasDate(call.local, "updated_at") /\ ~Has(call.remote, "updated_at")) =>
          /\ Has(call.out.merged, "updated_at")
          /\ call.out.merged["updated_at"] = call.local["updated_at"]

\* C17: when L and R both carry created_at the merge carries the earlier one,
\* also when the two have the same fingerprint.
C17_OriginPreservation ==
  (Merged /\ HasDate(call.local, "created_at") /\ HasDate(call.remote, "created_at")) =>
    /\ Has(call.out.merged, "created_at")
    /\ call.out.merged["created_at"] =
          IF call.local["created_at"] < call.remote["created_at"]
            THEN call.local["created_at"] ELSE call.remote["created_at"]

\* the save of the call of slot r fails in this step
SaveFailed(r) == req[r].pc = "loaded" /\ req'[r].pc = "idle" /\ last'.status = 500

\* C18: a call whose save fails leaves the persisted store, the registry and
\* the conflict log as they were, and sends no change event.
C18_AllOrNothing ==
  [][\A r \in Reqs : SaveFailed(r) =>
        /\ db' = db
        /\ connections' = connections
        /\ last'.event = <<>> /\ last'.delivered = {}
        /\ conflictLogs' = conflictLogs]_vars

\* the DELETE of slot r is accepted in this step
Deletes(r) == Accepts(r) /\ req[r].op = "delete"

\* C19: an accepted DELETE of x moves the store's currentVersion up by 1,
\* with a last log entry {delete, [x]}, leaves no record of x in the store
\* that GET reads, and its one event is a delete carrying the state of x that
\* was stored.
C19_DeleteRemovesAndLogs ==
  [][\A r \in Reqs : Deletes(r) =>
        /\ db'.currentVersion = db.currentVersion + 1
        /\ db'.versionLog[Len(db'.versionLog)].version = db'.currentVersion
        /\ db'.versionLog[Len(db'.versionLog)].operation = "delete"
        /\ db'.versionLog[Len(db'.versionLog)].itemIds = <<req[r].id>>
        /\ RecordsOf(GetAll(db').data, req[r].id) = {}
        /\ Len(req'[r].event) = 1
        /\ req'[r].event[1].action = "delete"
        /\ \E k \in RecordsOf(db.data, req[r].id) :
              req'[r].event[1].items = <<Spread([id |-> req[r].id], db.data[k])>>]_vars

\* a client replica upserts one record by id
Upsert(replica, rec) ==
  IF \E k \in 1..Len(replica) : FieldOf(replica[k], "id") = FieldOf(rec, "id")
    THEN [k \in 1..Len(replica) |->
            IF FieldOf(replica[k], "id") = FieldOf(rec, "id") THEN rec ELSE replica[k]]
    ELSE Append(replica, rec)

RECURSIVE ApplyDelta(_, _)
\* the replica upserts the records of a differential read, in order
ApplyDelta(replica, delta) ==
  IF delta = <<>> THEN replica
  ELSE ApplyDelta(Upsert(replica, Head(delta)), Tail(delta))

\* the log tells every accepted call since version 0 and none was a DELETE
OnlyUpsertsSinceZero ==
  /\ db.present
  /\ Len(db.versionLog) = db.currentVersion
  /\ \A i \in 1..Len(db.versionLog) : db.versionLog[i].operation # "delete"

\* C20, for V = 0: a replica that is empty, as the store was at version 0,
\* and upserts the records of changesSince(0) holds the store's records, when
\* only bulk and single upserts were accepted and the log is whole.
C20_CatchUpByDifferentialRead ==
  OnlyUpsertsSinceZero =>
    SeqToSet(ApplyDelta(<<>>, changesSince(db, 0).data)) = SeqToSet(db.data)

\* the task at position k of the submitted list lacks data or data.id, lacks
\* storeName or action, or names an operation other than create, update, delete
LacksData(k) == ~Has(call.tasks[k], "data") \/ ~Has(call.tasks[k]["data"], "id")
LacksRequired(k) == ~Has(call.tasks[k], "storeName") \/ ~Has(call.tasks[k], "action")
UnknownOperation(k) ==
  Has(call.tasks[k], "action") /\ call.tasks[k]["action"] \notin {"create", "update", "delete"}
Invalid(k) == LacksData(k) \/ LacksRequired(k) \/ UnknownOperation(k)
\* the message the route gives for it
MessageFor(k) ==
  [task |-> call.tasks[k]["id"],
   error |-> IF LacksData(k) THEN "is missing 'data' or 'data.id'."
             ELSE IF LacksRequired(k) THEN "is missing 'storeName' or 'action'."
             ELSE "Unknown action received"]

\* C21: the tasks are handled one per turn in submission order; the turn of
\* task k puts its id into exactly one of processedTaskIds and failedTasks; a
\* task that fails validation goes to failedTasks with its message and leaves
\* every object store as it was; the loop goes on to the next task either way,
\* and the answer to a non-empty list comes only when every task had its turn.
C21_TasksPartialSuccess ==
  [][call.fn = "tasks" =>
       /\ call'.fn = "tasks" =>
            LET k == call.i
                id == call.tasks[k]["id"]
                done == call'.processedTaskIds = Append(call.processedTaskIds, id)
                          /\ call'.failedTasks = call.failedTasks
                fail == call'.processedTaskIds = call.processedTaskIds
                          /\ Len(call'.failedTasks) = Len(call.failedTasks) + 1
                          /\ call'.failedTasks[Len(call'.failedTasks)].id = id
            IN /\ call'.i = k + 1
               /\ call'.tasks = call.tasks
               /\ done \/ fail
               /\ Invalid(k) =>
                    /\ fail
                    /\ call'.failedTasks[Len(call'.failedTasks)].error = MessageFor(k)
                    /\ call'.stores = call.stores
                    /\ call'.events = call.events
       /\ (call'.fn = "answered" /\ call'.status = 200) =>
            \A k \in 1..Len(call.tasks) :
               LET id == call.tasks[k]["id"]
                   p == Cardinality({j \in 1..Len(call.processedTaskIds) : call.processedTaskIds[j] = id})
                   f == Cardinality({j \in 1..Len(call.failedTasks) : call.failedTasks[j].id = id})
               IN p + f = 1]_vars

\* a list whose first task failed validation and whose second task was applied
\* to a store has been answered
C21_Witness ==
  /\ call.fn = "answered" /\ call.status = 200
  /\ Len(call.tasks) = 2
  /\ Invalid(1) /\ ~Invalid(2)
  /\ call.failedTasks = <<[id |-> Str(1), error |-> MessageFor(1)]>>
  /\ call.processedTaskIds = <<Str(2)>>
  /\ call.stores # [s \in StoreNames |-> {}]

\* C22: every append to the ledger leaves a versionLog of at most LogLimit
\* entries; the append to a log of LogLimit entries leaves the LogKeep most
\* recent ones, the last of them the entry just appended; and the call's
\* currentVersion is one above the loaded one whether or not the log was cut.
C22_BoundedVersionLog ==
  [][\A r \in Reqs : Accepts(r) =>
        LET before == req[r].loaded.versionLog
            after == db'.versionLog
        IN /\ Len(after) <= LogLimit
           /\ db'.currentVersion = LoadedVersion(r) + 1
           /\ after[Len(after)].version = db'.currentVersion
           /\ Len(before) < LogLimit =>
                /\ Len(after) = Len(before) + 1
                /\ SubSeq(after, 1, Len(before)) = before
           /\ Len(before) = LogLimit =>
                /\ Len(after) = LogKeep
                /\ SubSeq(after, 1, LogKeep - 1) =
                     SubSeq(before, LogLimit - LogKeep + 2, LogLimit)]_vars

\* the append to a full log has just cut it: the store stands one version
\* above the limit with LogKeep entries, the oldest kept being LogKeep back
C22_Witness ==
  /\ db.currentVersion = LogLimit + 1
  /\ Len(db.versionLog) = LogKeep
  /\ db.versionLog[1].version = LogLimit - LogKeep + 2
  /\ db.versionLog[LogKeep].version = LogLimit + 1

\* the first n entries of a log
Newest(log, n) == SubSeq(log, 1, IF Len(log) < n THEN Len(log) ELSE n)

\* C23: when conflicts are logged for a store, the log returned for that store
\* becomes the new entry followed by the entries returned before, cut to
\* MAX_CONFLICT_LOGS, and the log returned for every other store stays as it was.
C23_ConflictLogPerStore ==
  [][\A s \in ConflictStores :
        (/\ call'.fn = "logConflicts"
         /\ call'.storeName = s
         /\ call'.conflicts # <<>>) =>
        /\ getConflicts(conflictLogs', s).conflicts =
             Newest(<<[storeName |-> s, conflicts |-> call'.conflicts, resolved |-> TRUE]>>
                      \o getConflicts(conflictLogs, s).conflicts, MAX_CONFLICT_LOGS)
        /\ \A t \in ConflictStores \ {s} :
             getConflicts(conflictLogs', t) = getConflicts(conflictLogs, t)]_vars

\* the bulk upsert of c2 in slot r resumes, sent with the version c2 learned
\* by the call kind fn
Resubmits(r, fn) ==
  /\ req[r].pc = "loaded" /\ req'[r] # req[r]
  /\ req[r].op = "bulk"
  /\ call.fn = fn
  /\ req[r].body.lastVersion = call.version
Rejected(r) == req'[r] = Idle /\ last'.status = 409 /\ db' = db

\* C24: when c2's bulk upsert carries the version V that c2 read and the store
\* was saved by some accepted call between that read and the load of the bulk
\* upsert, the bulk upsert is answered 409.
C24_WholeStoreGate ==
  [][\A r \in Reqs :
        (Resubmits(r, "get") /\ req[r].loaded # call.store) => Rejected(r)]_vars

\* C26: a read of a store that was never written is answered
\* {data: [], count: 0, version: 0}; a read of a store that stands at version v
\* with n records is answered with exactly those n records and version v.
C26_ReadReturnsStore ==
  call.fn = "get" =>
    IF call.store.present
      THEN /\ call.out.data = call.store.data
           /\ call.out.count = Len(call.store.data)
           /\ call.out.version = call.store.currentVersion
      ELSE call.out = [data |-> <<>>, count |-> 0, version |-> 0]

\* a store that took three accepted calls and holds two records has been read
C26_Witness ==
  /\ call.fn = "get"
  /\ call.out.version = 3
  /\ call.out.count = 2
  /\ Len(call.store.versionLog) = 3

\* C30: when c2's bulk upsert carries the serverVersion S of the 409 that c2
\* was answered last and no call has saved the store between that answer and
\* the load of the retry, the retry is accepted.
C30_RetryAccepted ==
  [][\A r \in Reqs :
        (Resubmits(r, "rejected") /\ req[r].loaded = call.store) => Accepts(r)]_vars

\* the store that the handler of slot r loaded is absent or holds no record
\* whose id equals the id of the URL
NamesMissing(r) ==
  ~req[r].loaded.present \/ Holding(req[r].loaded, req[r].id) = {}

\* C25: a PATCH or DELETE whose handler finds no store, or no record of that
\* id in the store it loaded, is answered 404 and leaves the persisted store
\* (records, currentVersion, versionLog), the conflict log and the registry as
\* they were; no event is sent.
C25_NotFoundTouchesNothing ==
  [][\A r \in Reqs :
        (Continues(r) /\ req[r].op \in {"patch", "delete"} /\ NamesMissing(r)) =>
        /\ db' = db
        /\ accepted' = accepted
        /\ conflictLogs' = conflictLogs
        /\ connections' = connections
        /\ req'[r] = Idle
        /\ last'.op = req[r].op
        /\ last'.status = 404
        /\ last'.event = <<>>
        /\ last'.delivered = {}]_vars

\* a PATCH has been answered 404 by a store that holds a record of another id
C25_Witness ==
  /\ last.op = "patch" /\ last.status = 404
  /\ db.present /\ Len(db.data) = 1
  /\ db.currentVersion = 1

\* C27: in a broadcast pass over the registry, every connection other than the
\* excluded one is attempted, and each of them whose send does not fail gets
\* the message, whichever sends fail; the connections whose send failed are
\* out of the registry when the pass has ended, and no other connection is;
\* the pass returns the number of sends that succeeded.
C27_FanoutFailureIsolation ==
  [][(call' # call /\ call'.fn = "broadcast") =>
       LET attempted == {c \in connections : <<c>> # call'.exclude}
           failed == attempted \cap call'.dead
       IN /\ call'.before = connections
          /\ call'.out.attempted = attempted
          /\ call'.out.delivered = attempted \ failed
          /\ call'.out.sentTo = Cardinality(attempted \ failed)
          /\ connections' = connections \ failed
          /\ call'.out.delivered \subseteq connections']_vars

\* a pass over three connections in which one send failed and two succeeded
C27_Witness ==
  /\ call.fn = "broadcast"
  /\ call.exclude = <<>>
  /\ Cardinality(call.before) = 3
  /\ Cardinality(call.dead) = 1
  /\ call.out.sentTo = 2
  /\ connections = call.before \ call.dead

\* the handler of slot r, whose store state is saved, sends its event and answers
Answers(r) == req[r].pc = "saved" /\ req'[r] = Idle

\* C28: every accepted call, after its save, sends exactly one sync:change
\* event, and the event's version is the version the call allocated (the one
\* of its response); the event of a bulk upsert carries the call's items and
\* their count.
C28_PersistThenBroadcast ==
  [][\A r \in Reqs : Answers(r) =>
        /\ Len(last'.event) = 1
        /\ last'.event[1].version = <<req[r].resp[1].version>>
        /\ req[r].op = "bulk" =>
             /\ last'.event[1].count = Len(last'.event[1].items)
             /\ last'.event[1].count = req[r].resp[1].synced]_vars

\* the fields every write stamps anew
ServerStamps == {"updated_at", "version", "client_id"}

\* the merges of the call of slot r as it saves: the stored copy it loaded,
\* the incoming copy, and the record the saved store holds in its place
MergesOf(r) ==
  IF ~req[r].loaded.present THEN {}
  ELSE IF req[r].op = "bulk"
    THEN {[local |-> req[r].loaded.data[k], remote |-> req[r].body.data[i], after |-> db'.data[k]] :
            <<k, i>> \in {p \in (1..Len(req[r].loaded.data)) \X (1..Len(req[r].body.data)) :
                            FieldOf(req[r].loaded.data[p[1]], "id") = FieldOf(req[r].body.data[p[2]], "id")}}
  ELSE IF req[r].op \in {"put", "patch"}
    THEN {[local |-> req[r].loaded.data[k], remote |-> req[r].body, after |-> db'.data[k]] :
            k \in {FindIndex(req[r].loaded.data, req[r].id)} \ {0}}
  ELSE {}

\* every field of the stored copy that the incoming copy lacks, the stamps
\* aside, is in the record after the call with the value it had
LocalOnlyKept(m) ==
  \A f \in DOMAIN m.local \ (DOMAIN m.remote \cup ServerStamps) :
     Has(m.after, f) /\ m.after[f] = m.local[f]

StrategyOf(r) == IF req[r].op = "bulk" THEN req[r].body.strategy ELSE "field-level-merge"

\* C29 as stated: whatever strategy the caller names, every merge of an
\* accepted bulk upsert, PUT or PATCH keeps the fields that only the stored
\* copy has.
C29_LocalOnlyFieldsSurvive ==
  [][\A r \in Reqs : Accepts(r) => \A m \in MergesOf(r) : LocalOnlyKept(m)]_vars

\* C29 amended: the merges of PUT and PATCH, and of a bulk upsert whose
\* strategy is neither last-write-wins nor custom, keep the fields that only
\* the stored copy has; under last-write-wins and custom a bulk upsert whose
\* incoming copy differs in content and is not older than the stored copy
\* stores the incoming copy with created_at and the stamps and no other field.
C29_LocalOnlyFieldsSurviveFieldMerge ==
  [][\A r \in Reqs : Accepts(r) =>
        \A m \in MergesOf(r) :
           IF StrategyOf(r) \notin {"last-write-wins", "custom"}
             THEN LocalOnlyKept(m)
             ELSE (/\ generateHash(m.local) # generateHash(m.remote)
                   /\ Ge(EffectiveTime(m.remote), EffectiveTime(m.local))) =>
                  DOMAIN m.after = DOMAIN m.remote \cup ServerStamps \cup {"created_at"}]_vars

\* a bulk upsert under field-level-merge gave record 1 a price and the record
\* still has the stock that only the stored copy had
C29_Witness ==
  /\ \E r \in Reqs : req[r].pc = "saved" /\ req[r].op = "bulk"
        /\ req[r].resp[1].synced = 1
  /\ db.currentVersion = 2
  /\ Len(db.data) = 1
  /\ Has(db.data[1], "price") /\ db.data[1]["price"] = 7
  /\ Has(db.data[1], "stock") /\ db.data[1]["stock"] = 10

RECURSIVE Content(_)
\* a value without its key order and without the volatile keys at any level:
\* an object becomes a function from its remaining keys
Content(v) ==
  IF v[1] = "arr" THEN <<"arr", [i \in 1..Len(v[2]) |-> Content(v[2][i])]>>
  ELSE IF v[1] = "obj"
    THEN <<"obj", [k \in {v[2][i][1] : i \in 1..Len(v[2])} \ keysToExclude |->
                     Content(Member(v[2], k)[1])]>>
  ELSE v

\* C31: two records have the same fingerprint exactly when they have the same
\* content, which is what is left of them when the volatile keys are removed
\* at every level and the order of the keys is forgotten.
C31_CanonicalFingerprint ==
  call.fn = "hashed" => (call.same <=> Content(call.left) = Content(call.right))

\* two records that list their keys in different orders and differ in a
\* version nested inside a business field have been given the same fingerprint
C31_Witness ==
  LET one == <<"num", 1>>
      two == <<"num", 2>>
      innerLeft == <<"obj", << <<"version", one>>, <<"a", two>> >> >>
      innerRight == <<"obj", << <<"a", two>>, <<"version", two>> >> >>
  IN /\ call.fn = "hashed" /\ call.same
     /\ call.left = <<"obj", << <<"version", one>>, <<"a", innerLeft>> >> >>
     /\ call.right = <<"obj", << <<"a", innerRight>> >> >>

\* ---------------------------------------------------------------- C32
\* the tasks of the list that were applied to store s for id, oldest first
AppliedTo(s, id) ==
  SelectSeq(call.events, LAMBDA t : t["storeName"] = s /\ t["data"]["id"] = id)

Handled == call.fn = "stock" /\ call'.handled = call.handled + 1

\* the validator accepted the message and returned validated data
AcceptedWithData ==
  /\ call'.result # <<>>
  /\ call'.result[1] # <<>>
  /\ call'.result[1][1].valid
  /\ Has(call'.result[1][1], "validatedData")

\* C33: when the custom validator accepts a message and returns validatedData,
\* the payload broadcast to the other clients is that validatedData, not the
\* data the client sent.
C33_BroadcastsValidatedData ==
  [][Handled /\ AcceptedWithData =>
       \A i \in 1..Len(call'.sent) :
         call'.sent[i].message.data = call'.result[1][1].validatedData]_vars

\* ---------------------------------------------------------------- C34
\* the message whose handling ends is not valid JSON, fails the format check,
\* fails the data check of its event, or the validator rejects it
FailsValidation ==
  LET parsed == JSONparse(call'.rawMessage)
  IN \/ parsed = <<>>
     \/ ~validateMessageFormat(parsed[1])
     \/ ~validateEventData(parsed[1][2]["event"][2], parsed[1][2]["data"])
     \/ /\ call'.result # <<>>
        /\ \/ call'.result[1] = <<>>
           \/ ~call'.result[1][1].valid

\* C34: a stock message that is not valid JSON, fails the format check, fails
\* the per-event data check or is rejected by the custom validator is sent to
\* no client, and ws.send is called exactly once, with a stock:error message,
\* for its sender if the sender is still registered; a message that passes
\* all checks is sent once to every registered client except its sender.
C34_ValidationBeforePropagation ==
  [][Handled =>
       LET sender == call'.clientId
           sent == call'.sent
       IN IF FailsValidation
            THEN /\ Len(sent) = IF sender \in connections THEN 1 ELSE 0
                 /\ \A i \in 1..Len(sent) :
                      sent[i].to = sender /\ sent[i].message.event = "stock:error"
            ELSE /\ {sent[i].to : i \in 1..Len(sent)} = connections \ {sender}
                 /\ Len(sent) = Cardinality(connections \ {sender})
                 /\ \A i \in 1..Len(sent) :
                      sent[i].message.event = JSONparse(call'.rawMessage)[1][2]["event"][2]]_vars

\* the validator rejected a well-formed subtraction of a client registered
\* with two others: one stock:error for the sender, nothing for the others
C34_Witness ==
  /\ call.fn = "stock"
  /\ call.handled > 0
  /\ call.stage = "idle"
  /\ call.rawMessage = "{\"event\":\"stock:subtract\",\"data\":[{\"productId\":1,\"quantity\":2}]}"
  /\ call.result = << <<[valid |-> FALSE, error |-> "Stock insuficiente"]>> >>
  /\ connections = StockClients
  /\ Len(call.sent) = 1
  /\ call.sent[1].to = call.clientId
  /\ call.sent[1].message.event = "stock:error"
  /\ call.sent[1].message.data.reason = "Stock insuficiente"

\* ---------------------------------------------------------------- C35
\* the stored record is named by the call of slot r: a bulk upsert names the
\* records whose idField value is that of one of its items, a PUT, PATCH or
\* DELETE the records whose id is the id of the path
NamedBy(q, record) ==
  IF q.op = "bulk"
    THEN /\ Has(record, q.body.idField)
         /\ \E i \in 1..Len(q.body.data) :
              FieldOf(q.body.data[i], q.body.idField) = record[q.body.idField]
    ELSE Has(record, "id") /\ LooseEq(record["id"], q.id)

\* the records of the copy the handler of slot r loaded
LoadedRecords(r) == {req[r].loaded.data[i] : i \in 1..Len(req[r].loaded.data)}

\* C35: an accepted bulk upsert, PUT, PATCH or DELETE leaves every record of
\* the store it loaded that the call does not name present and unchanged in
\* all fields, records that lack the idField of the call included.
C35_WriteFrame ==
  [][\A r \in Reqs :
       req[r].pc = "loaded" /\ req'[r].pc = "saved" =>
         \A record \in LoadedRecords(r) :
           ~NamedBy(req[r], record) =>
             \E j \in 1..Len(db'.data) : db'.data[j] = record]_vars

\* ---------------------------------------------------------------- C36
\* some saved record carries the id
SavedUnder(id) ==
  \E j \in 1..Len(db'.data) : Has(db'.data[j], "id") /\ LooseEq(db'.data[j]["id"], id)

\* C36: after every accepted bulk upsert, PUT, PATCH or DELETE no two records
\* of the store share an id, every record written by the call is stored with
\* the id under which it was written (for PUT and PATCH the id of the path,
\* for a bulk upsert the id of the item), and every record carries an id.
C36_IdentifierIntegrity ==
  [][\A r \in Reqs :
       req[r].pc = "loaded" /\ req'[r].pc = "saved" =>
         /\ \A i, j \in 1..Len(db'.data) :
              i # j /\ Has(db'.data[i], "id") /\ Has(db'.data[j], "id")
                => db'.data[i]["id"] # db'.data[j]["id"]
         /\ \A j \in 1..Len(db'.data) : Has(db'.data[j], "id")
         /\ req[r].op \in {"put", "patch"} => SavedUnder(req[r].id)
         /\ req[r].op = "bulk" =>
              \A i \in 1..Len(req[r].body.data) :
                SavedUnder(FieldOf(req[r].body.data[i], "id"))]_vars

\* ---------------------------------------------------------------- C37
\* the merges of the call of slot r whose incoming copy carries neither
\* updated_at nor created_at while the stored copy carries a valid time
UndatedMerges(r) ==
  {m \in MergesOf(r) :
     /\ ~Has(m.remote, "updated_at") /\ ~Has(m.remote, "created_at")
     /\ Has(m.local, "updated_at") /\ m.local["updated_at"] # BadDate}

\* every field that differs keeps the stored value
DifferingKeepStored(m) ==
  \A f \in (DOMAIN m.remote \cap DOMAIN m.local) \ ServerStamps :
     m.remote[f] # m.local[f] => Has(m.after, f) /\ m.after[f] = m.local[f]

\* every field the stored copy lacks is added
AbsentAdded(m) ==
  \A f \in DOMAIN m.remote \ (DOMAIN m.local \cup ServerStamps) :
     Has(m.after, f) /\ m.after[f] = m.remote[f]

\* the stored copy is kept as it is, the stamps aside
StoredKept(m) == Drop(m.after, ServerStamps) = Drop(m.local, ServerStamps)

\* the call of slot r is not stopped by the version gate
PassesGate(r) ==
  req[r].op = "bulk" => ~(req[r].body.lastVersion < LoadedVersion(r))

Fingerprints(data) == {generateHash(data[i]) : i \in 1..Len(data)}

\* C38: a bulk payload submitted again with the lastVersion its last
\* submission returned leaves every record with the fingerprint it had after
\* the first submission, whatever the stored and the payload timestamps.
C38_ReplaySafety ==
  [][call.fn = "replay" /\ call.first # <<>> /\ req["r1"].pc = "loaded" /\ req'["r1"].pc = "saved" =>
       /\ Len(db'.data) = Len(call.first[1])
       /\ Fingerprints(db'.data) = Fingerprints(call.first[1])]_vars

\* ---------------------------------------------------------------- C39
\* the store the handler of slot r loaded holds a record under the path's id
FoundLoaded(r) ==
  /\ req[r].loaded.present
  /\ \E i \in 1..Len(req[r].loaded.data) :
       Has(req[r].loaded.data[i], "id") /\ LooseEq(req[r].loaded.data[i]["id"], req[r].id)

\* C39: a PUT, PATCH or DELETE is never answered with a version conflict: at
\* every currentVersion, whatever lastVersion its body names, a PUT is
\* accepted, and a PATCH or DELETE is accepted when the record exists and
\* answered 404 when it does not; each accepted one takes the next version.
\* A bulk upsert whose lastVersion is behind is answered 409.
C39_SingleWritesNotGated ==
  [][\A r \in Reqs : Continues(r) =>
        IF req[r].op = "bulk"
          THEN req[r].body.lastVersion < LoadedVersion(r) =>
                 req'[r] = Idle /\ last'.status = 409
        ELSE IF req[r].op = "put" \/ FoundLoaded(r)
          THEN /\ req'[r].pc = "saved"
               /\ req'[r].resp[1].success
               /\ req'[r].resp[1].version = LoadedVersion(r) + 1
          ELSE req'[r] = Idle /\ last'.status = 404]_vars

\* a PUT whose body names lastVersion 0 was accepted by a store at version 1
C39_Witness ==
  \E r \in Reqs :
    /\ req[r].pc = "saved"
    /\ req[r].op = "put"
    /\ Has(req[r].body, "lastVersion") /\ req[r].body["lastVersion"] = 0
    /\ req[r].resp[1].version = 2
    /\ db.currentVersion = 2

\* ---------------------------------------------------------------- C40
\* the handler of slot r is a bulk upsert with an empty item list
EmptyBulk(r) == req[r].op = "bulk" /\ req[r].body.data = <<>>

\* the store the handler of slot r works on
LoadedStore(r) == IF req[r].loaded.present THEN req[r].loaded ELSE initStoreMetadata

\* C40: an accepted bulk upsert with an empty item list takes the next
\* version, appends a log entry with operation bulk and no itemIds, saves the
\* store with every record as it was, and emits no change event.
C40_EmptyBulkConsumesVersion ==
  [][\A r \in Reqs : Accepts(r) /\ EmptyBulk(r) =>
        /\ db'.currentVersion = LoadedStore(r).currentVersion + 1
        /\ db'.versionLog =
             Append(LoadedStore(r).versionLog,
                    [version |-> db'.currentVersion, operation |-> "bulk",
                     itemIds |-> <<>>, clientId |-> req[r].body.clientId])
        /\ db'.present
        /\ db'.data = LoadedStore(r).data
        /\ req'[r].event = <<>>]_vars
====
